---- MODULE Spec2Model ----
(***************************************************************************)
(* Model of tools/isolate/trace_inputs.py: the per-flavor trace parsers    *)
(* (Strace, Dtrace, LogmanTrace), their helpers and the trace_inputs       *)
(* orchestrator.                                                           *)
(*                                                                         *)
(* Strings are sequences of one-character strings, so that startswith,     *)
(* endswith, "in", split and join are computed character by character as   *)
(* the Python code computes them.                                          *)
(***************************************************************************)
EXTENDS Integers, Sequences, FiniteSets, TLC

\* ------------------------------------------------------------------------
\* Python str operations
\* ------------------------------------------------------------------------

\* s.startswith(p)
StartsWith(s, p) == Len(p) <= Len(s) /\ SubSeq(s, 1, Len(p)) = p

\* s.endswith(p)
EndsWith(s, p) == Len(p) <= Len(s) /\ SubSeq(s, Len(s) - Len(p) + 1, Len(s)) = p

\* p in s
Contains(s, p) == \E i \in 1..(Len(s) - Len(p) + 1) : SubSeq(s, i, i + Len(p) - 1) = p

\* s.startswith(tuple) / s.endswith(tuple)
StartsWithAny(s, ps) == \E p \in ps : StartsWith(s, p)
EndsWithAny(s, ps) == \E p \in ps : EndsWith(s, p)

\* s.find(c) for a one-character c, 0 when absent (1-based otherwise)
FindChar(s, c) ==
  IF \E i \in 1..Len(s) : s[i] = c
  THEN CHOOSE i \in 1..Len(s) : s[i] = c /\ \A j \in 1..(i - 1) : s[j] # c
  ELSE 0

\* s.rfind(c) for a one-character c, 0 when absent (1-based otherwise)
RFindChar(s, c) ==
  IF \E i \in 1..Len(s) : s[i] = c
  THEN CHOOSE i \in 1..Len(s) : s[i] = c /\ \A j \in (i + 1)..Len(s) : s[j] # c
  ELSE 0

\* s.split(c): the list of the pieces between the occurrences of c
RECURSIVE StrSplit(_, _)
StrSplit(s, c) ==
  LET i == FindChar(s, c) IN
  IF i = 0 THEN <<s>>
  ELSE <<SubSeq(s, 1, i - 1)>> \o StrSplit(SubSeq(s, i + 1, Len(s)), c)

\* c.join(parts)
RECURSIVE StrJoin(_, _)
StrJoin(parts, c) ==
  IF parts = <<>> THEN <<>>
  ELSE IF Len(parts) = 1 THEN parts[1]
  ELSE parts[1] \o <<c>> \o StrJoin(Tail(parts), c)

\* s.rstrip(c)
RECURSIVE RStrip(_, _)
RStrip(s, c) ==
  IF s # <<>> /\ s[Len(s)] = c THEN RStrip(SubSeq(s, 1, Len(s) - 1), c) ELSE s

\* int(s) for a string of decimal digits
DigitVal(c) ==
  CASE c = "0" -> 0 [] c = "1" -> 1 [] c = "2" -> 2 [] c = "3" -> 3 [] c = "4" -> 4
    [] c = "5" -> 5 [] c = "6" -> 6 [] c = "7" -> 7 [] c = "8" -> 8 [] c = "9" -> 9

IsDigits(s) ==
  s # <<>> /\ \A i \in 1..Len(s) : s[i] \in {"0", "1", "2", "3", "4", "5", "6", "7", "8", "9"}

RECURSIVE ToInt(_)
ToInt(s) ==
  IF Len(s) = 1 THEN DigitVal(s[1])
  ELSE 10 * ToInt(SubSeq(s, 1, Len(s) - 1)) + DigitVal(s[Len(s)])

\* ------------------------------------------------------------------------
\* posixpath
\* ------------------------------------------------------------------------

SLASH == <<"/">>
DOT == <<".">>
DOTDOT == <<".", ".">>

\* os.path.isabs
IsAbs(p) == StartsWith(p, SLASH)

\* os.path.join(a, b)
PathJoin(a, b) ==
  IF IsAbs(b) THEN b
  ELSE IF a = <<>> \/ EndsWith(a, SLASH) THEN a \o b
  ELSE a \o SLASH \o b

\* os.path.split(p): <<head, tail>>
PathSplit(p) ==
  LET i == RFindChar(p, "/")
      head == SubSeq(p, 1, i)
      tail == SubSeq(p, i + 1, Len(p))
  IN  IF head # <<>> /\ RStrip(head, "/") # <<>>
      THEN <<RStrip(head, "/"), tail>>
      ELSE <<head, tail>>

\* os.path.dirname(p)
Dirname(p) == PathSplit(p)[1]

\* the loop of os.path.normpath over the components
RECURSIVE NormComps(_, _, _)
NormComps(comps, acc, rooted) ==
  IF comps = <<>> THEN acc
  ELSE LET c == Head(comps) IN
    IF c = <<>> \/ c = DOT THEN NormComps(Tail(comps), acc, rooted)
    ELSE IF c # DOTDOT \/ (~rooted /\ acc = <<>>)
              \/ (acc # <<>> /\ acc[Len(acc)] = DOTDOT)
         THEN NormComps(Tail(comps), Append(acc, c), rooted)
    ELSE IF acc # <<>> THEN NormComps(Tail(comps), SubSeq(acc, 1, Len(acc) - 1), rooted)
    ELSE NormComps(Tail(comps), acc, rooted)

\* os.path.normpath(p)
NormPath(p) ==
  IF p = <<>> THEN DOT
  ELSE LET slashes == IF ~IsAbs(p) THEN <<>>
                      ELSE IF StartsWith(p, <<"/", "/">>) /\ ~StartsWith(p, <<"/", "/", "/">>)
                           THEN <<"/", "/">>
                      ELSE SLASH
           body == StrJoin(NormComps(StrSplit(p, "/"), <<>>, slashes # <<>>), "/")
           out == slashes \o body
       IN  IF out = <<>> THEN DOT ELSE out

\* ------------------------------------------------------------------------
\* The filesystem the parser looks at (os.path.isfile, isdir, islink,
\* readlink, realpath). It does not change while a log is parsed.
\*   /r          directory (the root of the source tree)
\*   /r/a        regular file
\*   /r/d        directory
\*   /r/d/b      regular file
\*   /r/k        symbolic link to "a"       (an alias of /r/a)
\*   /r/l        symbolic link to "/usr/x"  (leaves the tree)
\*   /usr        directory
\*   /usr/x      regular file
\* ------------------------------------------------------------------------

P_r == <<"/", "r">>
P_r_a == <<"/", "r", "/", "a">>
P_r_d == <<"/", "r", "/", "d">>
P_r_d_b == <<"/", "r", "/", "d", "/", "b">>
P_r_k == <<"/", "r", "/", "k">>
P_r_l == <<"/", "r", "/", "l">>
P_r_n == <<"/", "r", "/", "n">>
P_usr == <<"/", "u", "s", "r">>
P_usr_x == <<"/", "u", "s", "r", "/", "x">>

Node(kind, target) == [kind |-> kind, target |-> target]

PosixFS ==
  (SLASH :> Node("dir", <<>>)) @@ (P_r :> Node("dir", <<>>)) @@
  (P_r_a :> Node("file", <<>>)) @@ (P_r_d :> Node("dir", <<>>)) @@
  (P_r_d_b :> Node("file", <<>>)) @@ (P_r_k :> Node("link", <<"a">>)) @@
  (P_r_l :> Node("link", P_usr_x)) @@ (P_usr :> Node("dir", <<>>)) @@
  (P_usr_x :> Node("file", <<>>))

\* os.getcwd() of the parsing process
ProcCwd == P_r

\* the longest chain of symbolic links one lookup follows
MaxLinks == 2

\* what lstat reports for a canonical path
Kind(p) == IF p \in DOMAIN PosixFS THEN PosixFS[p].kind ELSE "none"

\* the parent of a canonical path
Parent(p) == IF p = SLASH THEN SLASH ELSE Dirname(p)

ENOENT == <<>>

\* The kernel's path walk: from the canonical node cur, follow the components
\* comps; the canonical path of the node reached, or ENOENT when the walk fails
\* (a missing name, a component below something that is no directory, too many
\* links). The last component is followed when it is a link iff follow.
RECURSIVE Walk(_, _, _, _)
Walk(cur, comps, fuel, follow) ==
  IF cur = ENOENT \/ comps = <<>> THEN cur
  ELSE LET c == Head(comps)
           rest == Tail(comps)
       IN
    IF Kind(cur) # "dir" THEN ENOENT
    ELSE IF c = <<>> \/ c = DOT THEN Walk(cur, rest, fuel, follow)
    ELSE IF c = DOTDOT THEN Walk(Parent(cur), rest, fuel, follow)
    ELSE LET child == PathJoin(cur, c) IN
      IF Kind(child) = "none" THEN ENOENT
      ELSE IF Kind(child) = "link" /\ (rest # <<>> \/ follow) THEN
        IF fuel = 0 THEN ENOENT
        ELSE LET t == PosixFS[child].target IN
             Walk(IF IsAbs(t) THEN SLASH ELSE cur, StrSplit(t, "/") \o rest, fuel - 1, follow)
      ELSE Walk(child, rest, fuel, follow)

\* stat(p) and lstat(p): the kind of the node p names, "none" when there is none
Stat(p) ==
  IF p = <<>> THEN "none"
  ELSE Kind(Walk(IF IsAbs(p) THEN SLASH ELSE ProcCwd, StrSplit(p, "/"), MaxLinks, TRUE))

LStat(p) ==
  IF p = <<>> THEN "none"
  ELSE Kind(Walk(IF IsAbs(p) THEN SLASH ELSE ProcCwd, StrSplit(p, "/"), MaxLinks, FALSE))

\* os.path.isfile, os.path.isdir, os.path.islink
IsFile(p) == Stat(p) = "file"
IsDir(p) == Stat(p) = "dir"
IsLink(p) == LStat(p) = "link"

\* os.readlink(p) of a path for which IsLink holds
ReadLink(p) ==
  PosixFS[Walk(IF IsAbs(p) THEN SLASH ELSE ProcCwd, StrSplit(p, "/"), MaxLinks, FALSE)].target

\* posixpath._joinrealpath: join the components rest to path, resolving the
\* symbolic links met on the way
RECURSIVE JoinRealPath(_, _, _)
JoinRealPath(path, rest, fuel) ==
  IF rest = <<>> THEN path
  ELSE LET name == Head(rest)
           more == Tail(rest)
       IN
    IF name = <<>> \/ name = DOT THEN JoinRealPath(path, more, fuel)
    ELSE IF name = DOTDOT THEN
      IF path # <<>>
      THEN LET sp == PathSplit(path) IN
           IF sp[2] = DOTDOT
           THEN JoinRealPath(PathJoin(PathJoin(sp[1], DOTDOT), DOTDOT), more, fuel)
           ELSE JoinRealPath(sp[1], more, fuel)
      ELSE JoinRealPath(DOTDOT, more, fuel)
    ELSE LET newpath == PathJoin(path, name) IN
      IF ~IsLink(newpath) \/ fuel = 0 THEN JoinRealPath(newpath, more, fuel)
      ELSE LET t == ReadLink(newpath)
               start == IF IsAbs(t) THEN SLASH ELSE path
               trest == IF IsAbs(t) THEN Tail(t) ELSE t
           IN  JoinRealPath(JoinRealPath(start, StrSplit(trest, "/"), fuel - 1), more, fuel)

\* os.path.abspath(p)
AbsPath(p) == NormPath(IF IsAbs(p) THEN p ELSE PathJoin(ProcCwd, p))

\* os.path.realpath(p)
RealPath(p) ==
  AbsPath(IF IsAbs(p)
          THEN JoinRealPath(SLASH, StrSplit(Tail(p), "/"), MaxLinks)
          ELSE JoinRealPath(<<>>, StrSplit(p, "/"), MaxLinks))

\* ------------------------------------------------------------------------
\* trace_inputs.blacklist and the IGNORED prefixes of the tracers
\* ------------------------------------------------------------------------

Strace_IGNORED ==
  { <<"/", "b", "i", "n">>, <<"/", "d", "e", "v">>, <<"/", "e", "t", "c">>, <<"/", "l", "i", "b">>, <<"/", "p", "r", "o", "c">>, <<"/", "s", "y", "s">>, <<"/", "t", "m", "p">>,
    <<"/", "u", "s", "r">>, <<"/", "v", "a", "r">> }

Dtrace_IGNORED ==
  { <<"/", ".", "v", "o", "l">>, <<"/", "L", "i", "b", "r", "a", "r", "y">>, <<"/", "S", "y", "s", "t", "e", "m">>, <<"/", "d", "e", "v">>, <<"/", "e", "t", "c">>,
    <<"/", "p", "r", "i", "v", "a", "t", "e", "/", "v", "a", "r">>, <<"/", "t", "m", "p">>, <<"/", "u", "s", "r">>, <<"/", "v", "a", "r">> }

\* the blacklist closure of trace_inputs, for a tracer's IGNORED tuple and
\* the platform's os.path.sep
Blacklist(ignored, sep, f) ==
  \/ StartsWithAny(f, ignored)
  \/ EndsWith(f, <<".", "p", "y", "c">>)
  \/ Contains(f, sep \o <<".", "g", "i", "t">> \o sep)
  \/ Contains(f, sep \o <<".", "s", "v", "n">> \o sep)

\* ------------------------------------------------------------------------
\* Parser contexts. One record holds the fields of a _Context object:
\*   cwd            _cwd, pid -> current directory        (Strace, Dtrace)
\*   files          files
\*   non_existent   non_existent
\*   pending_calls  _pending_calls, <<pid, fn>> -> line    (Strace)
\*   processes      _processes                             (LogmanTrace)
\*   first_line     _first_line                            (LogmanTrace)
\*   err            the exception that ended on_line, "" when it returned
\* ------------------------------------------------------------------------

NoErr == ""

NewContext ==
  [cwd |-> <<>>, files |-> {}, non_existent |-> {}, pending_calls |-> <<>>,
   processes |-> {}, first_line |-> FALSE, err |-> NoErr]

Raise(c, e) == [c EXCEPT !.err = e]

\* d[k] = v
DictSet(d, k, v) == (k :> v) @@ d

\* del d[k]
DictDel(d, k) == [x \in (DOMAIN d) \ {k} |-> d[x]]

\* ------------------------------------------------------------------------
\* Strace._Context
\* A log line is a record: form is what the line looks like ("call" for
\* pid fn(args) = result, "unfinished", "resumed", "signal", "killed"), pid the
\* leading digits, fn the function name, args the list of the arguments the
\* line carries, result the text after "= ".
\* ------------------------------------------------------------------------

R_RESTART == <<"?", " ", "E", "R", "E", "S", "T", "A", "R", "T", "N", "O", "I", "N", "T", "R", " ", "(", "T", "o", " ", "b", "e", " ", "r", "e", "s", "t", "a", "r", "t", "e", "d", ")">>

Strace_blacklist(f) == Blacklist(Strace_IGNORED, SLASH, f)

\* Strace_handle_file with a bug: the relative path of a pid without a cwd is
\* taken from the root directory
Strace_handle_file_default(c, pid, filepath, result) ==
  IF StartsWith(result, <<"-", "1">>) THEN c
  ELSE LET fp == IF IsAbs(filepath) THEN filepath
                 ELSE IF pid \in DOMAIN c.cwd THEN PathJoin(c.cwd[pid], filepath)
                 ELSE PathJoin(P_r, filepath)
       IN
    IF Strace_blacklist(fp) THEN c
    ELSE IF fp \in c.files \/ fp \in c.non_existent THEN c
    ELSE IF IsFile(fp) THEN [c EXCEPT !.files = @ \cup {fp}]
    ELSE [c EXCEPT !.non_existent = @ \cup {fp}]

Strace_handle_file(c, pid, filepath, result) ==
  IF StartsWith(result, <<"-", "1">>) THEN c
  ELSE IF ~IsAbs(filepath) /\ pid \notin DOMAIN c.cwd THEN Raise(c, "KeyError")
  ELSE LET fp == IF IsAbs(filepath) THEN filepath ELSE PathJoin(c.cwd[pid], filepath) IN
    IF Strace_blacklist(fp) THEN c
    ELSE IF fp \in c.files \/ fp \in c.non_existent THEN c
    ELSE IF IsFile(fp) THEN [c EXCEPT !.files = @ \cup {fp}]
    ELSE [c EXCEPT !.non_existent = @ \cup {fp}]

\* Strace_handle_chdir with a bug: a relative chdir replaces the cwd
Strace_handle_chdir_nojoin(c, pid, args, result) ==
  IF StartsWith(result, <<"0">>)
  THEN [c EXCEPT !.cwd = DictSet(@, pid, args[1])]
  ELSE Raise(c, "AssertionError")

Strace_handle_chdir(c, pid, args, result) ==
  IF StartsWith(result, <<"0">>)
  THEN LET cwd == args[1] IN
       IF ~IsAbs(cwd)
       THEN IF pid \notin DOMAIN c.cwd THEN Raise(c, "KeyError")
            ELSE [c EXCEPT !.cwd = DictSet(@, pid, PathJoin(c.cwd[pid], cwd))]
       ELSE [c EXCEPT !.cwd = DictSet(@, pid, cwd)]
  ELSE Raise(c, "AssertionError")

\* Strace_handle_clone with a bug: the child gets no cwd
Strace_handle_clone_nocwd(c, pid, args, result) ==
  IF result = R_RESTART THEN c
  ELSE IF pid \notin DOMAIN c.cwd THEN Raise(c, "KeyError")
  ELSE IF ~IsDigits(result) THEN Raise(c, "ValueError")
  ELSE c

\* self._cwd[int(result)] = self._cwd[pid]: the right-hand side is evaluated
\* first
Strace_handle_clone(c, pid, args, result) ==
  IF result = R_RESTART THEN c
  ELSE IF pid \notin DOMAIN c.cwd THEN Raise(c, "KeyError")
  ELSE IF ~IsDigits(result) THEN Raise(c, "ValueError")
  ELSE [c EXCEPT !.cwd = DictSet(@, ToInt(result), c.cwd[pid])]

Strace_handle_execve(c, pid, args, result) ==
  Strace_handle_file(c, pid, args[1], result)

\* Strace_handle_exit_group with a bug: the cwd of every pid is dropped
Strace_handle_exit_group_all(c, pid) ==
  IF pid \notin DOMAIN c.cwd THEN Raise(c, "KeyError")
  ELSE [c EXCEPT !.cwd = <<>>]

Strace_handle_exit_group(c, pid) ==
  IF pid \notin DOMAIN c.cwd THEN Raise(c, "KeyError")
  ELSE [c EXCEPT !.cwd = DictDel(@, pid)]

Strace_handle_open(c, pid, args, result) ==
  IF "O_DIRECTORY" \in args[2] THEN c
  ELSE Strace_handle_file(c, pid, args[1], result)

Strace_handle_rename(c, pid, args, result) ==
  LET c1 == Strace_handle_file(c, pid, args[1], result) IN
  IF c1.err # NoErr THEN c1
  ELSE Strace_handle_file(c1, pid, args[2], result)

\* the names for which Strace._Context has a handle_ method
Strace_traces ==
  {"chdir", "clone", "execve", "exit_group", "fork", "open", "rename", "stat64", "vfork"}

\* Strace_dispatch with a bug: a name without a handler is passed over
Strace_dispatch_skip(c, pid, fn, args, result) ==
  CASE fn = "chdir" -> Strace_handle_chdir(c, pid, args, result)
    [] fn = "clone" -> Strace_handle_clone(c, pid, args, result)
    [] fn = "execve" -> Strace_handle_execve(c, pid, args, result)
    [] fn = "exit_group" -> Strace_handle_exit_group(c, pid)
    [] fn = "open" -> Strace_handle_open(c, pid, args, result)
    [] fn = "rename" -> Strace_handle_rename(c, pid, args, result)
    [] fn \in {"fork", "stat64", "vfork"} -> Raise(c, "AssertionError")
    [] OTHER -> c

\* getattr(self, 'handle_%s' % fn)(pid, fn, args, result)
Strace_dispatch(c, pid, fn, args, result) ==
  CASE fn = "chdir" -> Strace_handle_chdir(c, pid, args, result)
    [] fn = "clone" -> Strace_handle_clone(c, pid, args, result)
    [] fn = "execve" -> Strace_handle_execve(c, pid, args, result)
    [] fn = "exit_group" -> Strace_handle_exit_group(c, pid)
    [] fn = "open" -> Strace_handle_open(c, pid, args, result)
    [] fn = "rename" -> Strace_handle_rename(c, pid, args, result)
    [] fn \in {"fork", "stat64", "vfork"} -> Raise(c, "AssertionError")
    [] OTHER -> Raise(c, "AttributeError")

\* RE_UNAVAILABLE.match(line): re.match anchors the pattern, which begins with
\* "\)", at the first character of the line, and that is the pid's first digit
\* (the first letter of the function name in a line without a pid)
Strace_RE_UNAVAILABLE_match(l) == l.pid # <<>> /\ Head(l.pid) = ")"

\* Strace_on_line with a bug: the resumed line takes the pending line out of
\* the stash and the call is not dispatched
Strace_on_line_drop(c, l) ==
  IF l.form = "signal" THEN c
  ELSE IF l.form = "killed" THEN Strace_handle_exit_group(c, ToInt(l.pid))
  ELSE IF l.form = "unfinished"
    THEN [c EXCEPT !.pending_calls = DictSet(@, <<l.pid, l.fn>>, l.args)]
  ELSE IF Strace_RE_UNAVAILABLE_match(l) THEN c
  ELSE IF l.form = "resumed"
    THEN IF <<l.pid, l.fn>> \notin DOMAIN c.pending_calls THEN Raise(c, "KeyError")
         ELSE [c EXCEPT !.pending_calls = DictDel(@, <<l.pid, l.fn>>)]
  ELSE IF ~IsDigits(l.pid) THEN Raise(c, "AssertionError")
  ELSE Strace_dispatch(c, ToInt(l.pid), l.fn, l.args, l.result)

Strace_on_line(c, l) ==
  IF l.form = "signal" THEN c
  ELSE IF l.form = "killed" THEN Strace_handle_exit_group(c, ToInt(l.pid))
  ELSE IF l.form = "unfinished"
    THEN [c EXCEPT !.pending_calls = DictSet(@, <<l.pid, l.fn>>, l.args)]
  ELSE IF Strace_RE_UNAVAILABLE_match(l) THEN c
  ELSE IF l.form = "resumed"
    THEN IF <<l.pid, l.fn>> \notin DOMAIN c.pending_calls THEN Raise(c, "KeyError")
         ELSE Strace_dispatch(
                [c EXCEPT !.pending_calls = DictDel(@, <<l.pid, l.fn>>)],
                ToInt(l.pid), l.fn, c.pending_calls[<<l.pid, l.fn>>] \o l.args, l.result)
  ELSE IF ~IsDigits(l.pid) THEN Raise(c, "AssertionError")
  ELSE Strace_dispatch(c, ToInt(l.pid), l.fn, l.args, l.result)


\* ------------------------------------------------------------------------
\* Dtrace._Context
\* A log line is a record: index the leading logindex, ppid and pid the two
\* numbers of "ppid:pid", fn the function name, args the list of the
\* arguments, result the text after "= ".
\* ------------------------------------------------------------------------

O_DIRECTORY == 1048576

Dtrace_blacklist(f) == Blacklist(Dtrace_IGNORED, SLASH, f)

\* flag & O_DIRECTORY == O_DIRECTORY
HasDirectoryBit(flag) == (flag \div O_DIRECTORY) % 2 = 1

Dtrace_handle_file(c, pid, filepath, result) ==
  IF StartsWithAny(result, {<<"-", "1">>, <<"2">>}) THEN c
  ELSE IF ~IsAbs(filepath) /\ pid \notin DOMAIN c.cwd THEN Raise(c, "KeyError")
  ELSE LET fp == NormPath(IF IsAbs(filepath) THEN filepath
                          ELSE PathJoin(c.cwd[pid], filepath))
       IN
    IF Dtrace_blacklist(fp) THEN c
    ELSE IF fp \in c.files \/ fp \in c.non_existent \/ IsDir(fp) THEN c
    ELSE IF IsFile(fp) THEN [c EXCEPT !.files = @ \cup {fp}]
    ELSE [c EXCEPT !.non_existent = @ \cup {fp}]

Dtrace_handle_proc_start(c, ppid, pid, result) ==
  IF result # <<"0">> THEN Raise(c, "AssertionError")
  ELSE IF ppid \notin DOMAIN c.cwd THEN Raise(c, "KeyError")
  ELSE [c EXCEPT !.cwd = DictSet(@, pid, c.cwd[ppid])]

Dtrace_handle_proc_exit(c, pid) ==
  IF pid \notin DOMAIN c.cwd THEN Raise(c, "KeyError")
  ELSE [c EXCEPT !.cwd = DictDel(@, pid)]

\* Dtrace_handle_chdir with a bug: a relative chdir replaces the cwd
Dtrace_handle_chdir_nojoin(c, pid, args, result) ==
  IF StartsWith(result, <<"0">>)
  THEN [c EXCEPT !.cwd = DictSet(@, pid, args[1])]
  ELSE Raise(c, "AssertionError")

Dtrace_handle_chdir(c, pid, args, result) ==
  IF StartsWith(result, <<"0">>)
  THEN LET cwd == args[1] IN
       IF ~IsAbs(cwd)
       THEN IF pid \notin DOMAIN c.cwd THEN Raise(c, "KeyError")
            ELSE [c EXCEPT !.cwd = DictSet(@, pid, PathJoin(c.cwd[pid], cwd))]
       ELSE [c EXCEPT !.cwd = DictSet(@, pid, cwd)]
  ELSE Raise(c, "AssertionError")

Dtrace_handle_open(c, pid, args, result) ==
  IF HasDirectoryBit(ToInt(args[2])) THEN c
  ELSE Dtrace_handle_file(c, pid, args[1], result)

Dtrace_handle_rename(c, pid, args, result) ==
  LET c1 == Dtrace_handle_file(c, pid, args[1], result) IN
  IF c1.err # NoErr THEN c1
  ELSE Dtrace_handle_file(c1, pid, args[2], result)

\* _handle_ignored with a bug: a name without a handler is an error
Dtrace_handle_ignored_fatal(c) == Raise(c, "AttributeError")

\* _handle_ignored only logs
Dtrace_handle_ignored(c) == c

Dtrace_on_line(c, l) ==
  CASE l.fn = "dtrace_BEGIN" -> c
    [] l.fn = "proc_start" -> Dtrace_handle_proc_start(c, ToInt(l.ppid), ToInt(l.pid), l.result)
    [] l.fn = "proc_exit" -> Dtrace_handle_proc_exit(c, ToInt(l.pid))
    [] l.fn = "chdir" -> Dtrace_handle_chdir(c, ToInt(l.pid), l.args, l.result)
    [] l.fn \in {"open", "open_nocancel"} -> Dtrace_handle_open(c, ToInt(l.pid), l.args, l.result)
    [] l.fn = "rename" -> Dtrace_handle_rename(c, ToInt(l.pid), l.args, l.result)
    [] OTHER -> Dtrace_handle_ignored(c)


\* ------------------------------------------------------------------------
\* Windows: ntpath, the drive map and the filesystem LogmanTrace looks at
\*   c:\r        directory        c:\r\a       regular file
\*   c:\r\d      directory        c:\r\d\b     regular file
\*   c:\windows  directory        c:\windows\x regular file
\* ------------------------------------------------------------------------

BSLASH == <<"\\">>

UpperChars == <<"A", "B", "C", "D", "E", "F", "G", "H", "I", "J", "K", "L", "M", "N", "O", "P", "Q", "R", "S", "T", "U", "V", "W", "X", "Y", "Z">>
LowerChars == <<"a", "b", "c", "d", "e", "f", "g", "h", "i", "j", "k", "l", "m", "n", "o", "p", "q", "r", "s", "t", "u", "v", "w", "x", "y", "z">>

\* c.lower() for one character
LowerChar(c) ==
  IF \E i \in 1..Len(UpperChars) : UpperChars[i] = c
  THEN LowerChars[CHOOSE i \in 1..Len(UpperChars) : UpperChars[i] = c]
  ELSE c

\* s.lower()
StrLower(s) == [i \in 1..Len(s) |-> LowerChar(s[i])]

HexChars == <<"0", "1", "2", "3", "4", "5", "6", "7", "8", "9", "a", "b", "c", "d", "e", "f">>

\* int(s, 16), s with or without the 0x prefix
RECURSIVE HexDigits(_)
HexDigits(s) ==
  IF s = <<>> THEN 0
  ELSE 16 * HexDigits(SubSeq(s, 1, Len(s) - 1))
       + (CHOOSE i \in 1..16 : HexChars[i] = LowerChar(s[Len(s)])) - 1

HexToInt(s) ==
  IF StartsWith(StrLower(s), <<"0", "x">>) THEN HexDigits(SubSeq(s, 3, Len(s))) ELSE HexDigits(s)

W_r == <<"c", ":", "\\", "r">>
W_r_a == <<"c", ":", "\\", "r", "\\", "a">>
W_r_d == <<"c", ":", "\\", "r", "\\", "d">>
W_r_d_b == <<"c", ":", "\\", "r", "\\", "d", "\\", "b">>
W_r_n == <<"c", ":", "\\", "r", "\\", "n">>
W_windows == <<"c", ":", "\\", "w", "i", "n", "d", "o", "w", "s">>
W_windows_x == <<"c", ":", "\\", "w", "i", "n", "d", "o", "w", "s", "\\", "x">>

WinFS ==
  (W_r :> "dir") @@ (W_r_a :> "file") @@ (W_r_d :> "dir") @@ (W_r_d_b :> "file") @@
  (W_windows :> "dir") @@ (W_windows_x :> "file")

\* the loop of ntpath.normpath over the components of a rooted path
RECURSIVE NtNormComps(_, _)
NtNormComps(comps, acc) ==
  IF comps = <<>> THEN acc
  ELSE LET c == Head(comps) IN
    IF c = <<>> \/ c = DOT THEN NtNormComps(Tail(comps), acc)
    ELSE IF c = DOTDOT
         THEN NtNormComps(Tail(comps),
                          IF acc = <<>> THEN acc ELSE SubSeq(acc, 1, Len(acc) - 1))
    ELSE NtNormComps(Tail(comps), Append(acc, c))

\* ntpath.normpath of a path with a drive ("c:\x\..\y")
NtNormPath(p) ==
  LET q == [i \in 1..Len(p) |-> IF p[i] = "/" THEN "\\" ELSE p[i]]
      drive == IF Len(q) >= 2 /\ q[2] = ":" THEN SubSeq(q, 1, 2) ELSE <<>>
      rest == SubSeq(q, Len(drive) + 1, Len(q))
      rooted == StartsWith(rest, BSLASH)
      body == StrJoin(NtNormComps(StrSplit(rest, "\\"), <<>>), "\\")
  IN  drive \o (IF rooted THEN BSLASH ELSE <<>>) \o body

\* the current directory of the parsing process on Windows
WinCwd == W_r

\* ntpath.abspath(p): a path without a drive or relative to its drive is
\* completed from the current directory, then normalised
NtAbsPath(p) ==
  LET hasdrive == Len(p) >= 2 /\ p[2] = ":"
      rest == IF hasdrive THEN SubSeq(p, 3, Len(p)) ELSE p
      rooted == StartsWith(rest, BSLASH) \/ StartsWith(rest, SLASH)
  IN  IF hasdrive /\ rooted THEN NtNormPath(p)
      ELSE IF hasdrive /\ StrLower(SubSeq(p, 1, 2)) # StrLower(SubSeq(WinCwd, 1, 2))
           THEN NtNormPath(SubSeq(p, 1, 2) \o BSLASH \o rest)
      ELSE IF rooted THEN NtNormPath(SubSeq(WinCwd, 1, 2) \o rest)
      ELSE NtNormPath(WinCwd \o BSLASH \o rest)

\* os.path.isdir, os.path.isfile and os.path.realpath on Windows; names are
\* looked up without regard to case, and realpath is abspath
WinStat(p) ==
  LET q == StrLower(NtAbsPath(p)) IN
  IF q \in DOMAIN WinFS THEN WinFS[q] ELSE "none"

WinIsFile(p) == WinStat(p) = "file"
WinIsDir(p) == WinStat(p) = "dir"
WinRealPath(p) == NtAbsPath(p)

\* ntpath.isabs(p)
WinIsAbs(p) ==
  LET rest == IF Len(p) >= 2 /\ p[2] = ":" THEN SubSeq(p, 3, Len(p)) ELSE p
  IN  StartsWith(rest, BSLASH) \/ StartsWith(rest, SLASH)

\* QueryDosDevice: the NT device of each drive letter that has one
DEV_V1 == <<"\\", "D", "e", "v", "i", "c", "e", "\\", "V", "1">>
DEV_V2 == <<"\\", "D", "e", "v", "i", "c", "e", "\\", "V", "2">>

QueryDosDevice == (<<"C", ":">> :> DEV_V1) @@ (<<"D", ":">> :> DEV_V2)

\* the letters DosDriveMap.__init__ goes through, C to Z
DriveLetters == SubSeq(UpperChars, 3, 26)

\* DosDriveMap.__init__: _MAPPING, device -> drive; err is set when the
\* assertion on a device seen twice fails
\* the loop of __init__ over the letters, query being what QueryDosDevice
\* gives; a letter without a device raises WindowsError, which is passed over
RECURSIVE DosDriveMap_loop(_, _, _)
DosDriveMap_loop(query, letters, m) ==
  IF letters = <<>> \/ m.err # NoErr THEN m
  ELSE LET letter == <<Head(letters), ":">> IN
    IF letter \notin DOMAIN query THEN DosDriveMap_loop(query, Tail(letters), m)
    ELSE LET mapped == query[letter] IN
      IF mapped \in DOMAIN m.map THEN [m EXCEPT !.err = "AssertionError"]
      ELSE DosDriveMap_loop(query, Tail(letters), [m EXCEPT !.map = DictSet(@, mapped, letter)])

DosDriveMap_fill(letters, m) == DosDriveMap_loop(QueryDosDevice, letters, m)

DosDriveMap_init == DosDriveMap_fill(DriveLetters, [map |-> <<>>, err |-> NoErr])

AlnumChars == UpperChars \o LowerChars \o <<"0", "1", "2", "3", "4", "5", "6", "7", "8", "9">>

IsAlnum(s) ==
  s # <<>> /\ \A i \in 1..Len(s) : \E j \in 1..Len(AlnumChars) : AlnumChars[j] = s[i]

DEVICE_PREFIX == <<"\\", "D", "e", "v", "i", "c", "e", "\\">>

\* re.match(r'(^\\Device\\[a-zA-Z0-9]+)(\\.*)?$', path): <<group 1, group 2>>,
\* << >> when the path does not match
ToDos_match(path) ==
  IF ~StartsWith(path, DEVICE_PREFIX) THEN <<>>
  ELSE LET tail == SubSeq(path, Len(DEVICE_PREFIX) + 1, Len(path))
           i == FindChar(tail, "\\")
           name == IF i = 0 THEN tail ELSE SubSeq(tail, 1, i - 1)
           rest == IF i = 0 THEN <<>> ELSE SubSeq(tail, i, Len(tail))
       IN  IF IsAlnum(name) THEN <<DEVICE_PREFIX \o name, rest>> ELSE <<>>

\* to_dos with a bug: a path without a drive is returned as it is
DosDriveMap_to_dos_unmapped(mapping, path) ==
  LET m == ToDos_match(path) IN
  IF m = <<>> \/ m[1] \notin DOMAIN mapping THEN [ok |-> TRUE, path |-> path]
  ELSE [ok |-> TRUE, path |-> mapping[m[1]] \o m[2]]

\* DosDriveMap.to_dos(path): [ok, path]; ok is FALSE when the assertion fails
DosDriveMap_to_dos(mapping, path) ==
  LET m == ToDos_match(path) IN
  IF m = <<>> \/ m[1] \notin DOMAIN mapping THEN [ok |-> FALSE, path |-> <<>>]
  ELSE [ok |-> TRUE, path |-> mapping[m[1]] \o m[2]]


\* ------------------------------------------------------------------------
\* LogmanTrace
\* ------------------------------------------------------------------------

\* os.path.dirname(sys.executable) and the values of the environment
\* variables LogmanTrace.__init__ reads, where they are set
Win_python_dir == <<"C", ":", "\\", "P", "y">>
Win_environ == ("SystemRoot" :> <<"C", ":", "\\", "W", "i", "n", "d", "o", "w", "s">>) @@ ("TEMP" :> <<"C", ":", "\\", "T", "m", "p">>)

vars_to_ignore ==
  {"APPDATA", "LOCALAPPDATA", "ProgramData", "ProgramFiles", "ProgramFiles(x86)",
   "ProgramW6432", "SystemRoot", "TEMP", "TMP"}

\* GetShortPathName: the 8.3 form of a directory (these are short already)
GetShortPathName(p) == p

\* LogmanTrace.__init__: self.IGNORED
LogmanTrace_IGNORED ==
  LET long == {StrLower(Win_python_dir)}
              \cup {StrLower(Win_environ[v]) : v \in vars_to_ignore \cap DOMAIN Win_environ}
  IN  long \cup {StrLower(GetShortPathName(i)) : i \in long} \cup {<<"\\", "s", "y", "s", "t", "e", "m", "r", "o", "o", "t">>}

LogmanTrace_blacklist(f) == Blacklist(LogmanTrace_IGNORED, BSLASH, f)

\* A CSV row is a record: header says it is the row of the column names,
\* fixed_ok that the columns with a fixed value (Event ID, Version, Channel,
\* Level, Task, Keyword, the instance and activity ids) hold it, event and
\* type are columns 0 and 1, pid column 9, child_pid, parent_pid, file_path
\* and proc_name the user-data columns 20, 21, 25 and 26; guid says that
\* column 0 starts with "{".

LogmanTrace_handle_file(c, filename) ==
  IF \/ LogmanTrace_blacklist(filename)
     \/ WinIsDir(filename)
     \/ filename \in c.files
     \/ filename \in c.non_existent
  THEN c
  ELSE IF WinIsFile(filename) THEN [c EXCEPT !.files = @ \cup {filename}]
  ELSE [c EXCEPT !.non_existent = @ \cup {filename}]

\* re.match(r'^\"(.+)\"$', s).group(1), << >> when there is no match
Unquote(s) ==
  IF Len(s) >= 3 /\ s[1] = "\"" /\ s[Len(s)] = "\"" THEN SubSeq(s, 2, Len(s) - 1) ELSE <<>>

LogmanTrace_handle_FileIo_Create(c, line) ==
  LET m == Unquote(line.file_path) IN
  IF m = <<>> THEN Raise(c, "AttributeError")
  ELSE LET dos == DosDriveMap_to_dos(DosDriveMap_init.map, m) IN
    IF ~dos.ok THEN Raise(c, "AssertionError")
    ELSE LogmanTrace_handle_file(c, StrLower(dos.path))

LOGMAN == "\"logman.exe\""

LogmanTrace_handle_Process_DCStart(c, line) ==
  IF line.proc_name = LOGMAN
  THEN [c EXCEPT !.processes = @ \cup {HexToInt(line.parent_pid)}]
  ELSE c

LogmanTrace_handle_Process_End(c, pid) ==
  IF pid \in c.processes THEN [c EXCEPT !.processes = @ \ {pid}] ELSE c

\* LogmanTrace_handle_Process_Start with a bug: the parent is not looked at
LogmanTrace_handle_Process_Start_any(c, ppid, line) ==
  IF line.proc_name = LOGMAN THEN c
  ELSE [c EXCEPT !.processes = @ \cup {HexToInt(line.child_pid)}]

LogmanTrace_handle_Process_Start(c, ppid, line) ==
  IF ppid \in c.processes
  THEN IF line.proc_name = LOGMAN THEN c
       ELSE [c EXCEPT !.processes = @ \cup {HexToInt(line.child_pid)}]
  ELSE c

\* the (Event Name, Type) pairs for which _Context has a handle_ method
LogmanTrace_handlers ==
  { <<"EventTrace", "Any">>, <<"FileIo", "Create">>, <<"FileIo", "Rename">>,
    <<"FileIo", "Any">>, <<"Image", "DCStart">>, <<"Image", "Load">>,
    <<"Image", "Any">>, <<"Process", "Any">>, <<"Process", "DCStart">>,
    <<"Process", "End">>, <<"Process", "Start">>, <<"SystemConfig", "Any">> }

\* LogmanTrace_handler with a bug: the handler of (event, "Any") comes first
LogmanTrace_handler_any_first(event, type) ==
  IF <<event, "Any">> \in LogmanTrace_handlers THEN <<event, "Any">>
  ELSE IF <<event, type>> \in LogmanTrace_handlers THEN <<event, type>>
  ELSE <<>>

\* the handler on_csv_line picks: the one of (event, type), else the one of
\* (event, "Any"), else none
LogmanTrace_handler(event, type) ==
  IF <<event, type>> \in LogmanTrace_handlers THEN <<event, type>>
  ELSE IF <<event, "Any">> \in LogmanTrace_handlers THEN <<event, "Any">>
  ELSE <<>>

\* handler(line), for the handler on_csv_line has picked; << >> is none:
\* assert False
LogmanTrace_call(h, c, line) ==
  CASE h = <<>> -> Raise(c, "AssertionError")
    [] h = <<"FileIo", "Create">> -> LogmanTrace_handle_FileIo_Create(c, line)
    [] h = <<"Process", "DCStart">> -> LogmanTrace_handle_Process_DCStart(c, line)
    [] h = <<"Process", "End">> -> LogmanTrace_handle_Process_End(c, HexToInt(line.pid))
    [] h = <<"Process", "Start">> ->
         LogmanTrace_handle_Process_Start(c, HexToInt(line.pid), line)
    [] OTHER -> c

LogmanTrace_on_csv_line(c, line) ==
  IF ~c.first_line
  THEN IF line.header THEN [c EXCEPT !.first_line = TRUE] ELSE Raise(c, "AssertionError")
  ELSE IF line.header \/ ~line.fixed_ok THEN Raise(c, "AssertionError")
  ELSE IF line.guid THEN c
  ELSE LogmanTrace_call(LogmanTrace_handler(line.event, line.type), c, line)


\* ------------------------------------------------------------------------
\* parse_log of the three tracers
\* ------------------------------------------------------------------------

\* for line in open(filename): context.on_line(line), until one raises
RECURSIVE Strace_feed(_, _)
Strace_feed(c, lines) ==
  IF lines = <<>> \/ c.err # NoErr THEN c
  ELSE Strace_feed(Strace_on_line(c, Head(lines)), Tail(lines))

RECURSIVE Dtrace_feed(_, _)
Dtrace_feed(c, lines) ==
  IF lines = <<>> \/ c.err # NoErr THEN c
  ELSE Dtrace_feed(Dtrace_on_line(c, Head(lines)), Tail(lines))

RECURSIVE LogmanTrace_feed(_, _)
LogmanTrace_feed(c, lines) ==
  IF lines = <<>> \/ c.err # NoErr THEN c
  ELSE LogmanTrace_feed(LogmanTrace_on_csv_line(c, Head(lines)), Tail(lines))

\* the pair parse_log returns from the context it has fed
\* Strace_parse_log_return with a bug: the sets are returned unresolved
Strace_parse_log_return_raw(c) ==
  [files |-> c.files, non_existent |-> c.non_existent]

Strace_parse_log_return(c) ==
  [files |-> {RealPath(f) : f \in c.files},
   non_existent |-> {RealPath(f) : f \in c.non_existent}]

Dtrace_parse_log_return(c) ==
  [files |-> {RealPath(f) : f \in c.files},
   non_existent |-> {RealPath(f) : f \in c.non_existent}]

LogmanTrace_parse_log_return(c) ==
  [files |-> {WinRealPath(f) : f \in c.files},
   non_existent |-> {WinRealPath(f) : f \in c.non_existent}]

\* LogmanTrace._Context(blacklist): the context, or the failure of building
\* the drive map
LogmanTrace_NewContext == Raise(NewContext, DosDriveMap_init.err)


\* ------------------------------------------------------------------------
\* The log lines fed to the parsers
\* ------------------------------------------------------------------------

SLine(form, pid, fn, args, result) ==
  [form |-> form, pid |-> pid, fn |-> fn, args |-> args, result |-> result]

DLine(ppid, pid, fn, args, result) ==
  [form |-> "call", index |-> <<"0">>, ppid |-> ppid, pid |-> pid, fn |-> fn, args |-> args, result |-> result]

ELine(event, type, pid, child_pid, parent_pid, file_path, proc_name) ==
  [form |-> "csv", fn |-> "", header |-> FALSE, fixed_ok |-> TRUE, guid |-> FALSE, event |-> event, type |-> type,
   pid |-> pid, child_pid |-> child_pid, parent_pid |-> parent_pid,
   file_path |-> file_path, proc_name |-> proc_name]

NoLine == [form |-> "none", fn |-> "", pid |-> <<>>, args |-> <<>>, result |-> <<>>]

RDONLY == {"O_RDONLY"}
RDONLY_DIR == {"O_RDONLY", "O_DIRECTORY"}
R_OK0 == <<"0">>
R_FD3 == <<"3">>
R_ENOENT == <<"-", "1", " ", "E", "N", "O", "E", "N", "T">>
R_UNAVAIL == <<"?", " ", "<", "u", "n", "a", "v", "a", "i", "l", "a", "b", "l", "e", ">">>
R_EXIT == <<"?">>

StracePids == {<<"1">>, <<"2">>}

\* the paths the open records of pid 1 carry
StraceOpenPaths ==
  { P_r_a, <<"a">>, P_r_d, P_r_n, P_r_l, P_r_k, <<"x">>, <<"/", "r", "/", "a", "/", ".">>, <<"/", "r", "/", "c", ".", "p", "y", "c">>, <<"b">> }

StraceLines ==
  {SLine("call", p, "chdir", <<d>>, R_OK0) : p \in StracePids, d \in {P_r, <<"d">>, P_usr}}
  \cup {SLine("call", <<"1">>, "chdir", <<P_r_n>>, R_ENOENT)}
  \cup {SLine("call", <<"1">>, "clone", <<>>, r) : r \in {<<"2">>, R_RESTART}}
  \cup {SLine("call", <<"1">>, "execve", <<<<"a">>>>, R_OK0),
        SLine("call", <<"2">>, "execve", <<P_r_d_b>>, R_OK0),
        SLine("call", <<"1">>, "execve", <<P_r_n>>, R_ENOENT)}
  \cup {SLine("call", p, "exit_group", <<>>, R_EXIT) : p \in StracePids}
  \cup {SLine("killed", <<"2">>, "", <<>>, <<>>), SLine("signal", <<"1">>, "", <<>>, <<>>)}
  \cup {SLine("call", <<"1">>, "open", <<f, RDONLY>>, R_FD3) : f \in StraceOpenPaths}
  \cup {SLine("call", <<"2">>, "open", <<f, RDONLY, <<"4", "3", "8">>>>, R_FD3) : f \in {<<"a">>, <<"x">>}}
  \cup {SLine("call", <<"1">>, "open", <<P_r_d, RDONLY_DIR>>, R_FD3),
        SLine("call", <<"1">>, "open", <<P_r_n, RDONLY>>, R_ENOENT),
        SLine("call", <<"2">>, "open", <<<<"a">>, RDONLY>>, R_ENOENT),
        SLine("call", <<"1">>, "open", <<P_r_d_b, RDONLY>>, R_UNAVAIL)}
  \cup {SLine("call", <<"1">>, "rename", <<P_r_a, P_r_n>>, R_OK0),
        SLine("call", <<"1">>, "rename", <<P_r_n, <<"b">>>>, R_OK0),
        SLine("call", <<"1">>, "rename", <<P_r_d_b, P_r_n>>, R_ENOENT)}
  \cup {SLine("unfinished", p, "open", <<<<"a">>, RDONLY>>, <<>>) : p \in StracePids}
  \cup {SLine("resumed", p, "open", <<>>, R_FD3) : p \in StracePids}
  \cup {SLine("call", <<"1">>, "fork", <<>>, <<"2">>), SLine("call", <<"1">>, "read", <<>>, R_OK0)}
  \cup {SLine("call", <<"1">>, "vfork", <<>>, <<"2">>)}

DtracePids == {<<"1">>, <<"2">>}

DtraceOpenPaths ==
  { P_r_a, <<"a">>, P_r_d, P_r_n, P_r_l, P_r_k, <<"x">>, <<"/", "r", "/", "d", "/", ".", ".", "/", "a">>, <<"/", "r", "/", "c", ".", "p", "y", "c">>, <<"b">>, <<".">> }

F_RDONLY == <<"0">>
F_DIRECTORY == <<"1", "0", "4", "8", "5", "7", "6">>
R_EACCES == <<"1", "3">>
R_ENOENT2 == <<"2">>

DtraceLines ==
  {DLine(<<"1">>, p, "chdir", <<d>>, R_OK0) : p \in DtracePids, d \in {P_r, <<"d">>, P_usr}}
  \cup {DLine(<<"1">>, <<"1">>, "chdir", <<P_r_n>>, R_ENOENT2)}
  \cup {DLine(<<"0">>, <<"1">>, "dtrace_BEGIN", <<>>, R_OK0)}
  \cup {DLine(<<"1">>, <<"2">>, "proc_start", <<>>, R_OK0),
        DLine(<<"1">>, <<"2">>, "proc_start", <<>>, <<"1">>)}
  \cup {DLine(<<"1">>, p, "proc_exit", <<>>, R_OK0) : p \in DtracePids}
  \cup {DLine(<<"1">>, <<"1">>, "open", <<f, F_RDONLY, <<"0">>>>, R_OK0) : f \in DtraceOpenPaths}
  \cup {DLine(<<"1">>, <<"2">>, "open_nocancel", <<f, F_RDONLY, <<"4", "3", "8">>>>, R_OK0) : f \in {<<"a">>, <<"x">>}}
  \cup {DLine(<<"1">>, <<"1">>, "open", <<P_r_d, F_DIRECTORY, <<"0">>>>, R_OK0),
        DLine(<<"1">>, <<"1">>, "open", <<P_r_d_b, <<"1", "0", "4", "8", "5", "7", "7">>, <<"0">>>>, R_OK0)}
  \cup {DLine(<<"1">>, <<"1">>, "rename", <<P_r_a, P_r_n>>, R_OK0),
        DLine(<<"1">>, <<"1">>, "rename", <<P_r_n, <<"b">>>>, R_OK0),
        DLine(<<"1">>, <<"1">>, "rename", <<P_r_d_b, P_r_n>>, R_EACCES),
        DLine(<<"1">>, <<"2">>, "rename", <<P_r_a, <<"a">>>>, R_ENOENT2)}
  \cup {DLine(<<"1">>, <<"1">>, "stat", <<P_r_a>>, R_OK0)}

Q(s) == <<"\"">> \o s \o <<"\"">>

EtwFilePaths ==
  { <<"\\", "D", "e", "v", "i", "c", "e", "\\", "V", "1", "\\", "r", "\\", "a">>, <<"\\", "D", "e", "v", "i", "c", "e", "\\", "V", "1", "\\", "R", "\\", "A">>, <<"\\", "D", "e", "v", "i", "c", "e", "\\", "V", "1", "\\", "r", "\\", "d">>, <<"\\", "D", "e", "v", "i", "c", "e", "\\", "V", "1", "\\", "r", "\\", "n">>,
    <<"\\", "D", "e", "v", "i", "c", "e", "\\", "V", "1", "\\", "r", "\\", "d", "\\", ".", ".", "\\", "a">>, <<"\\", "D", "e", "v", "i", "c", "e", "\\", "V", "1", "\\", "W", "i", "n", "d", "o", "w", "s", "\\", "x">>, <<"\\", "D", "e", "v", "i", "c", "e", "\\", "V", "1", "\\", "r", "\\", ".", "g", "i", "t", "\\", "c">>,
    <<"\\", "D", "e", "v", "i", "c", "e", "\\", "V", "1">>, <<"\\", "D", "e", "v", "i", "c", "e", "\\", "V", "9", "\\", "r", "\\", "a">>, <<"\\", "?", "?", "\\", "c", ":", "\\", "r", "\\", "a">> }

HeaderLine == [ELine("Event Name", "Type", <<>>, <<>>, <<>>, <<>>, "") EXCEPT !.header = TRUE]

EtwLines ==
  {HeaderLine}
  \cup {[ELine("FileIo", "Create", <<"0", "x", "2">>, <<>>, <<>>, <<>>, "") EXCEPT !.fixed_ok = FALSE]}
  \cup {[ELine("{guid}", "", <<>>, <<>>, <<>>, <<>>, "") EXCEPT !.guid = TRUE]}
  \cup {ELine("Process", "DCStart", <<"0", "x", "9">>, <<"0", "x", "8">>, <<"0", "x", "1">>, <<>>, LOGMAN),
        ELine("Process", "DCStart", <<"0", "x", "9">>, <<"0", "x", "7">>, <<"0", "x", "3">>, <<>>, "\"explorer.exe\"")}
  \cup {ELine("Process", "Start", <<"0", "x", "1">>, <<"0", "x", "2">>, <<"0", "x", "1">>, <<>>, "\"python.exe\""),
        ELine("Process", "Start", <<"0", "x", "1">>, <<"0", "x", "4">>, <<"0", "x", "1">>, <<>>, LOGMAN),
        ELine("Process", "Start", <<"0", "x", "3">>, <<"0", "x", "5">>, <<"0", "x", "3">>, <<>>, "\"other.exe\"")}
  \cup {ELine("Process", "End", p, <<>>, <<>>, <<>>, "") : p \in {<<"0", "x", "1">>, <<"0", "x", "2">>, <<"0", "x", "3">>}}
  \cup {ELine("FileIo", "Create", <<"0", "x", "2">>, <<>>, <<>>, Q(f), "") : f \in EtwFilePaths}
  \cup {ELine("FileIo", "Create", <<"0", "x", "3">>, <<>>, <<>>, Q(f), "")
          : f \in {<<"\\", "D", "e", "v", "i", "c", "e", "\\", "V", "1", "\\", "r", "\\", "a">>, <<"\\", "D", "e", "v", "i", "c", "e", "\\", "V", "1", "\\", "r", "\\", "d", "\\", "b">>}}
  \cup {ELine("FileIo", "Create", <<"0", "x", "2">>, <<>>, <<>>, <<"\\", "D", "e", "v", "i", "c", "e", "\\", "V", "1", "\\", "r", "\\", "a">>, "")}
  \cup {ELine("FileIo", "Rename", <<"0", "x", "2">>, <<>>, <<>>, Q(<<"\\", "D", "e", "v", "i", "c", "e", "\\", "V", "1", "\\", "r", "\\", "a">>), ""),
        ELine("FileIo", "Read", <<"0", "x", "2">>, <<>>, <<>>, Q(<<"\\", "D", "e", "v", "i", "c", "e", "\\", "V", "1", "\\", "r", "\\", "a">>), ""),
        ELine("Image", "Load", <<"0", "x", "2">>, <<>>, <<>>, <<>>, ""),
        ELine("EventTrace", "Header", <<"0", "x", "0">>, <<>>, <<>>, <<>>, ""),
        ELine("Thread", "Start", <<"0", "x", "2">>, <<>>, <<>>, <<>>, "")}

\* ------------------------------------------------------------------------
\* State
\* ------------------------------------------------------------------------

VARIABLES
  \* one parse_log call
  flavor,       \* the tracer whose parse_log runs: "linux", "mac" or "win"
  context,      \* the _Context object parse_log feeds
  pstate,       \* "parsing", "raised" (an exception left parse_log) or "returned"
  result,       \* the pair parse_log returned
  last,         \* the line on_line was called with last, as it was dispatched
  nlines,       \* the number of lines read so far
  \* one trace_inputs call
  platform,     \* sys.platform
  logfile,      \* the log file, NoFile when there is none
  force_trace,  \* the force_trace argument
  cmd,          \* the cmd argument, then the fixed command
  cwd_dir,      \* the cwd_dir argument, NoFile when it is None
  tstate,       \* where trace_inputs is
  api,          \* the tracer trace_inputs selected
  returncode,   \* what gen_trace returned
  parsed,       \* what parse_log returned to trace_inputs
  ret,          \* what trace_inputs returned or raised
  log0,         \* the log file when trace_inputs was called
  events,       \* what trace_inputs has done so far, in order
  opt_log,      \* main: TRUE when -l was given
  product_dir,  \* the product_dir argument, NoFile when it is None
  stdout,       \* what has been printed so far
  run1,         \* what the first of two runs printed and returned
  \* one Dtrace.gen_trace call
  child,        \* the child process: its state and its exit code
  dtrace,       \* the dtrace process: its state and its exit code
  \* relevant_files, extract_directories and the rebase step on their own
  files_in,     \* the paths given to relevant_files
  tree,         \* what os.listdir gives for each directory under the root
  ostate,       \* the next step
  expected,     \* relevant_files: the paths under the root, root removed
  unexpected,   \* relevant_files: the other paths
  simplified,   \* what extract_directories returned
  corrected,    \* the rebased paths
  variables,    \* the 'variables' dictionary of the value printed
  \* one DosDriveMap()
  drives,       \* what QueryDosDevice gives for each drive letter that has a device
  mapping,      \* _MAPPING and the exception that left __init__, if one did
  \* a strace log with split calls, next to the same log with the calls whole
  twin,         \* the _Context fed the log in which no call is split
  \* the D script and the processes it watches
  trackedpid,   \* the D variable trackedpid[]: 0 or 1 for each pid
  current_processes, \* the D variable current_processes
  logindex,     \* the D variable logindex
  procs,        \* the processes of the machine: state and parent of each pid
  readpos       \* the number of lines gen_trace has read from the log

parseVars == <<flavor, context, pstate, result, last, nlines>>

traceVars ==
  <<platform, logfile, force_trace, cmd, cwd_dir, tstate, api, returncode, parsed, ret,
    log0, events>>

moreVars == <<opt_log, product_dir, stdout, run1>>

genVars == <<child, dtrace>>

outVars == <<files_in, tree, ostate, expected, unexpected, simplified, corrected, variables>>

driveVars == <<drives, mapping>>

stitchVars == <<twin>>

scriptVars == <<trackedpid, current_processes, logindex, procs, readpos>>

extraVars == <<stitchVars, scriptVars>>

vars == <<parseVars, traceVars, moreVars, genVars, outVars, driveVars, extraVars>>

\* a file that may be missing: <<>> when it is, <<content>> when it is there
NoFile == <<>>
File(content) == <<content>>
Content(f) == f[1]
\* what trace_inputs has returned or raised so far
NoReturn == [exc |-> "", code |-> -1]
None == "None"
NoResult == [files |-> {}, non_existent |-> {}]

\* the variables of the part that is not running
IdleParse ==
  /\ flavor = "linux"
  /\ context = NewContext
  /\ pstate = "idle"
  /\ result = NoResult
  /\ last = NoLine
  /\ nlines = 0

NoProcess == [state |-> "none", code |-> 0]

\* what is kept of a first call of trace_inputs: its arguments, the log it
\* found, and what it printed, returned and left as the log
NoRun ==
  [done |-> FALSE, args |-> <<>>, log0 |-> NoFile, stdout |-> <<>>, ret |-> NoReturn,
   logfile |-> NoFile]

IdleGen ==
  /\ child = NoProcess
  /\ dtrace = NoProcess

\* _MAPPING before the first DosDriveMap() is built
NoMapping == [map |-> <<>>, err |-> "", built |-> FALSE]

IdleDrives ==
  /\ drives = <<>>
  /\ mapping = NoMapping

\* no process has been seen and the D script has not begun
NoProcs == <<>>

IdleStitch == twin = NewContext

IdleScript ==
  /\ trackedpid = <<>>
  /\ current_processes = 0
  /\ logindex = 0
  /\ procs = NoProcs
  /\ readpos = 0

IdleExtra == IdleStitch /\ IdleScript

IdleOut ==
  /\ files_in = <<>>
  /\ tree = <<>>
  /\ ostate = "idle"
  /\ expected = <<>>
  /\ unexpected = <<>>
  /\ simplified = <<>>
  /\ corrected = <<>>
  /\ variables = <<>>

IdleMore ==
  /\ opt_log = TRUE
  /\ product_dir = NoFile
  /\ stdout = <<>>
  /\ run1 = NoRun

IdleTrace ==
  /\ IdleMore /\ IdleGen /\ IdleOut /\ IdleDrives /\ IdleExtra
  /\ platform = "linux2"
  /\ logfile = NoFile
  /\ force_trace = FALSE
  /\ cmd = <<>>
  /\ cwd_dir = NoFile
  /\ tstate = "idle"
  /\ api = None
  /\ returncode = 0
  /\ parsed = NoResult
  /\ ret = NoReturn
  /\ log0 = NoFile
  /\ events = <<>>

\* ------------------------------------------------------------------------
\* Specification of one parse_log call: the lines of any log, one at a time
\* ------------------------------------------------------------------------

\* the longest log
MaxLog == 4

InitParse ==
  /\ flavor \in {"linux", "mac", "win"}
  /\ context = IF flavor = "win" THEN LogmanTrace_NewContext ELSE NewContext
  /\ pstate = "parsing"
  /\ result = NoResult
  /\ last = NoLine
  /\ nlines = 0
  /\ IdleTrace

\* the line as on_line dispatches it: a resumed line completed by the pending
\* line it resumes
Dispatched(c, l) ==
  IF flavor = "linux" /\ l.form = "resumed" /\ <<l.pid, l.fn>> \in DOMAIN c.pending_calls
  THEN [l EXCEPT !.args = c.pending_calls[<<l.pid, l.fn>>] \o @]
  ELSE l

Fed(c, l) ==
  /\ context' = c
  /\ pstate' = IF c.err # NoErr THEN "raised" ELSE "parsing"
  /\ last' = Dispatched(context, l)
  /\ nlines' = nlines + 1
  /\ UNCHANGED <<flavor, result, traceVars, moreVars, genVars, outVars, driveVars, extraVars>>

CanRead(f) == flavor = f /\ pstate = "parsing" /\ context.err = NoErr /\ nlines < MaxLog

Strace_read_line == CanRead("linux") /\ \E l \in StraceLines : Fed(Strace_on_line(context, l), l)

Dtrace_read_line == CanRead("mac") /\ \E l \in DtraceLines : Fed(Dtrace_on_line(context, l), l)

LogmanTrace_read_line ==
  CanRead("win") /\ \E l \in EtwLines : Fed(LogmanTrace_on_csv_line(context, l), l)

Returned(r) ==
  /\ result' = r
  /\ pstate' = "returned"
  /\ UNCHANGED <<flavor, context, last, nlines, traceVars, moreVars, genVars, outVars, driveVars, extraVars>>

AtEnd(f) == flavor = f /\ pstate = "parsing" /\ context.err = NoErr

Strace_parse_log == AtEnd("linux") /\ Returned(Strace_parse_log_return(context))

Dtrace_parse_log == AtEnd("mac") /\ Returned(Dtrace_parse_log_return(context))

LogmanTrace_parse_log == AtEnd("win") /\ Returned(LogmanTrace_parse_log_return(context))

NextParse ==
  \/ Strace_read_line
  \/ Dtrace_read_line
  \/ LogmanTrace_read_line
  \/ Strace_parse_log
  \/ Dtrace_parse_log
  \/ LogmanTrace_parse_log

SpecParse == InitParse /\ [][NextParse]_vars


\* ------------------------------------------------------------------------
\* Properties of the parsers
\* ------------------------------------------------------------------------

Posix == flavor \in {"linux", "mac"}

\* the line is a record of a file syscall (open, execve, rename)
IsFileEvent(l) ==
  \/ flavor = "linux" /\ l.form \in {"call", "resumed"} /\ l.fn \in {"open", "execve", "rename"}
  \/ flavor = "mac" /\ l.form = "call" /\ l.fn \in {"open", "open_nocancel", "rename"}

\* the paths a file event names
EventPaths(l) == IF l.fn = "rename" THEN {l.args[1], l.args[2]} ELSE {l.args[1]}

\* the open record says the path is a directory
DirectoryFlag(l) ==
  /\ l.fn \in {"open", "open_nocancel"}
  /\ IF flavor = "linux" THEN "O_DIRECTORY" \in l.args[2] ELSE HasDirectoryBit(ToInt(l.args[2]))

\* the record reports a call that failed
FailedResult(l) ==
  IF flavor = "linux" THEN StartsWith(l.result, <<"-", "1">>)
  ELSE StartsWithAny(l.result, {<<"-", "1">>, <<"2">>})

\* the syscall of the record did not succeed: strace prints a return value
\* >= 0 for a call that succeeded, dtrace the errno, 0 for success
CallDidNotSucceed(l) ==
  IF flavor = "linux" THEN ~IsDigits(l.result) ELSE l.result # <<"0">>

AllPaths(r) == r.files \cup r.non_existent

IsDirOn(p) == IF flavor = "win" THEN WinIsDir(p) ELSE IsDir(p)
IsAbsOn(p) == IF flavor = "win" THEN WinIsAbs(p) ELSE IsAbs(p)
RealPathOn(p) == IF flavor = "win" THEN WinRealPath(p) ELSE RealPath(p)
BlacklistOn(p) ==
  CASE flavor = "linux" -> Strace_blacklist(p)
    [] flavor = "mac" -> Dtrace_blacklist(p)
    [] OTHER -> LogmanTrace_blacklist(p)

\* C1: no path is in both files and non_existent, neither in the context
\* while the log is read nor in the pair parse_log returns.
C1_Disjoint ==
  /\ context.files \cap context.non_existent = {}
  /\ result.files \cap result.non_existent = {}

ResolvesRelative(l) ==
  /\ IsFileEvent(l)
  /\ ~FailedResult(l)
  /\ ~DirectoryFlag(l)
  /\ \E f \in EventPaths(l) : ~IsAbs(f)

C2_Inv ==
  (Posix /\ context.err = NoErr /\ ResolvesRelative(last))
    => /\ ToInt(last.pid) \in DOMAIN context.cwd
       /\ IsAbs(context.cwd[ToInt(last.pid)])

\* a cwd entry is set or changed only by a chdir, clone or process-start line
C2_Step ==
  \A p \in DOMAIN context'.cwd :
    (p \notin DOMAIN context.cwd \/ context'.cwd[p] # context.cwd[p])
      => last'.fn \in {"chdir", "clone", "proc_start"}

C3_FailedCallAddsNothing ==
  [][(Posix /\ IsFileEvent(last') /\ CallDidNotSucceed(last')
        /\ (flavor = "linux" \/ last'.fn # "execve"))
      => /\ context'.files = context.files
         /\ context'.non_existent = context.non_existent]_vars

\* C4: no directory is in the pair parse_log returns.
C4_NoDirectoryInResult == \A p \in AllPaths(result) : ~IsDirOn(p)

\* C5: no blacklisted path is in the pair parse_log returns.
C5_NoBlacklistedInResult == \A p \in AllPaths(result) : ~BlacklistOn(p)

\* C6: every path in the pair parse_log returns is absolute and is its own
\* realpath.
C6_ResultIsRealPath ==
  \A p \in AllPaths(result) : IsAbsOn(p) /\ RealPathOn(p) = p

C6_Witness ==
  /\ pstate = "returned"
  /\ flavor = "linux"
  /\ P_r_k \in context.files
  /\ P_r_n \in context.non_existent
  /\ result.files = {P_r_a}

\* C7: in the ETW parser only a FileIo_Create record of a tracked pid adds a
\* path.
C7_OnlyTrackedPidsRecorded ==
  [][(flavor = "win" /\ (context'.files # context.files
                          \/ context'.non_existent # context.non_existent))
      => /\ last'.event = "FileIo" /\ last'.type = "Create"
         /\ HexToInt(last'.pid) \in context.processes]_vars


\* ------------------------------------------------------------------------
\* sorted(), relevant_files, extract_directories
\* ------------------------------------------------------------------------

\* the characters of the paths, in the order of their codes
CharOrder ==
  <<" ", "(", ")", ".", "/", "0", "1", "2", "3", "4", "5", "6", "7", "8", "9", ":", "<",
    "A", "B", "C", "D", "E", "F", "G", "H", "I", "J", "K", "L", "M", "N", "O", "P", "Q", "R",
    "S", "T", "U", "V", "W", "X", "Y", "Z", "\\", "_",
    "a", "b", "c", "d", "e", "f", "g", "h", "i", "j", "k", "l", "m", "n", "o", "p", "q", "r",
    "s", "t", "u", "v", "w", "x", "y", "z">>

Ord(c) == CHOOSE i \in 1..Len(CharOrder) : CharOrder[i] = c

\* a < b for two str
RECURSIVE StrLess(_, _)
StrLess(a, b) ==
  IF b = <<>> THEN FALSE
  ELSE IF a = <<>> THEN TRUE
  ELSE IF a[1] # b[1] THEN Ord(a[1]) < Ord(b[1])
  ELSE StrLess(Tail(a), Tail(b))

\* sorted(set(...))
RECURSIVE SortedSet(_)
SortedSet(S) ==
  IF S = {} THEN <<>>
  ELSE LET least == CHOOSE x \in S : \A y \in S \ {x} : StrLess(x, y)
       IN  <<least>> \o SortedSet(S \ {least})

Reverse(s) == [i \in 1..Len(s) |-> s[Len(s) + 1 - i]]

Range(s) == {s[i] : i \in 1..Len(s)}

\* relevant_files with a bug: the lists are returned as they were built
relevant_files_unsorted(files, root) ==
  [expected |-> [i \in 1..Len(SelectSeq(files, LAMBDA f : StartsWith(f, root))) |->
                   SubSeq(SelectSeq(files, LAMBDA f : StartsWith(f, root))[i],
                          Len(root) + 1,
                          Len(SelectSeq(files, LAMBDA f : StartsWith(f, root))[i]))],
   unexpected |-> SelectSeq(files, LAMBDA f : ~StartsWith(f, root)),
   err |-> NoErr]

\* relevant_files(files, root); `assert f` fails for a path that is the root
relevant_files(files, root) ==
  LET under == {f \in Range(files) : StartsWith(f, root)}
      other == Range(files) \ under
  IN  IF root \in under
      THEN [expected |-> <<>>, unexpected |-> <<>>, err |-> "AssertionError"]
      ELSE [expected |-> SortedSet({SubSeq(f, Len(root) + 1, Len(f)) : f \in under}),
            unexpected |-> SortedSet(other),
            err |-> NoErr]

\* os.path of the platform: "posix" for posixpath, "nt" for ntpath; the nt
\* operators are those of paths that carry a drive or are relative
OsSep(os) == IF os = "nt" THEN BSLASH ELSE SLASH

NtPathSplit(p) ==
  LET i == RFindChar(p, "\\")
      head == SubSeq(p, 1, i)
      tail == SubSeq(p, i + 1, Len(p))
      stripped == RStrip(head, "\\")
  IN  IF stripped # <<>> /\ ~EndsWith(stripped, <<":">>) THEN <<stripped, tail>>
      ELSE <<head, tail>>

NtPathJoin(a, b) ==
  IF a = <<>> \/ EndsWith(a, BSLASH) \/ EndsWith(a, SLASH) THEN a \o b
  ELSE a \o BSLASH \o b

OsDirname(os, p) == IF os = "nt" THEN NtPathSplit(p)[1] ELSE Dirname(p)
OsJoin(os, a, b) == IF os = "nt" THEN NtPathJoin(a, b) ELSE PathJoin(a, b)

\* os.listdir(path) on a tree given as the names in each of its directories
DirKey(os, path) == IF os = "nt" THEN StrLower(NtNormPath(path)) ELSE NormPath(path)
IsListed(os, ls, path) == DirKey(os, path) \in DOMAIN ls
ListDir(os, ls, path) == ls[DirKey(os, path)]

\* what os.listdir gives on the two filesystems
PosixListing ==
  [d \in {p \in DOMAIN PosixFS : PosixFS[p].kind = "dir"} |->
     {PathSplit(q)[2] : q \in {x \in DOMAIN PosixFS : x # SLASH /\ Parent(x) = d}}]

WinListing ==
  [d \in {p \in DOMAIN WinFS : WinFS[p] = "dir"} |->
     {NtPathSplit(q)[2] : q \in {x \in DOMAIN WinFS : x # d /\ NtPathSplit(x)[1] = d}}]

\* IgnoredEntry with a bug: no entry is looked at
IgnoredEntry_all(name) == TRUE

\* the entries of a directory extract_directories does not look at
IgnoredEntry(name) == EndsWithAny(name, {<<".", "s", "v", "n">>, <<".", "p", "y", "c">>})

\* the loop of extract_directories over the directories that are left
RECURSIVE extract_loop(_, _, _, _, _)
extract_loop(os, directories, files, root, ls) ==
  IF directories = <<>> THEN [files |-> files, err |-> NoErr]
  ELSE LET directory == Head(directories) IN
       IF ~IsListed(os, ls, OsJoin(os, root, directory))
       THEN [files |-> files, err |-> "OSError"]
       ELSE LET actual == {OsJoin(os, directory, f) :
                             f \in {n \in ListDir(os, ls, OsJoin(os, root, directory)) :
                                      ~IgnoredEntry(n)}}
            IN  IF actual \ files = {}
                THEN extract_loop(os, Tail(directories),
                                  (files \ actual) \cup {directory \o OsSep(os)}, root, ls)
                ELSE extract_loop(os, Tail(directories), files, root, ls)

\* extract_directories(files, root)
extract_directories(os, files, root, ls) ==
  LET directories == {OsDirname(os, f) : f \in Range(files)}
      out == extract_loop(os, Reverse(SortedSet(directories)), Range(files), root, ls)
  IN  [simplified |-> SortedSet(out.files), err |-> out.err]

\* ------------------------------------------------------------------------
\* The rebase step of trace_inputs
\* ------------------------------------------------------------------------

StrReplace(s, c, d) == [i \in 1..Len(s) |-> IF s[i] = c THEN d[1] ELSE s[i]]

\* cleanuppath(x); x is NoFile for None
cleanuppath(os, x) ==
  IF x = NoFile \/ Content(x) = <<>> THEN x
  ELSE LET y == StrReplace(RStrip(Content(x), OsSep(os)[1]), OsSep(os)[1], SLASH)
           z == IF y = DOT THEN <<>> ELSE y
       IN  File(IF z # <<>> THEN z \o SLASH ELSE z)

\* the names of an absolute path: [x for x in abspath(p).split('/') if x]
AbsNames(p) == SelectSeq(StrSplit(AbsPath(p), "/"), LAMBDA x : x # <<>>)

\* len(commonprefix([a, b])) for two lists
RECURSIVE CommonLen(_, _)
CommonLen(a, b) ==
  IF a = <<>> \/ b = <<>> \/ a[1] # b[1] THEN 0 ELSE 1 + CommonLen(Tail(a), Tail(b))

\* posixpath.relpath(path, start), for a path that is not empty
PosixRelPath(path, start) ==
  LET start_list == AbsNames(start)
      path_list == AbsNames(path)
      i == CommonLen(start_list, path_list)
      rel_list == [k \in 1..(Len(start_list) - i) |-> DOTDOT]
                    \o SubSeq(path_list, i + 1, Len(path_list))
  IN  IF rel_list = <<>> THEN DOT ELSE StrJoin(rel_list, "/")

\* posix_relpath with a bug: what posixpath.relpath gives is returned as it is
posix_relpath_bare(path, root) == PosixRelPath(path, root)

\* posix_relpath(path, root)
posix_relpath(path, root) ==
  PosixRelPath(path, root) \o (IF EndsWith(path, SLASH) THEN SLASH ELSE <<>>)

PRODUCT_DIR == <<"<", "(", "P", "R", "O", "D", "U", "C", "T", "_", "D", "I", "R", ")", "/">>

\* fix with a bug: the product directory is not looked at
fix_relative(os, f0, product, cwd) == posix_relpath(f0, Content(cwd))

\* fix(f), with product_dir and cwd_dir as cleanuppath left them
fix(os, f0, product, cwd) ==
  LET f == IF os = "nt" THEN StrReplace(f0, "\\", SLASH) ELSE f0 IN
  IF product # NoFile /\ Content(product) # <<>> /\ StartsWith(f, Content(product))
  THEN PRODUCT_DIR \o SubSeq(f, Len(Content(product)) + 1, Len(f))
  ELSE LET r == posix_relpath(f, Content(cwd)) IN
       IF r = <<>> THEN <<".", "/">> ELSE r

\* corrected = [fix(f) for f in simplified]
rebase(os, simple, product, cwd) ==
  [i \in 1..Len(simple) |-> fix(os, simple[i], cleanuppath(os, product), cleanuppath(os, cwd))]

KEY_TRACKED == "isolate_dependency_tracked"
KEY_UNTRACKED == "isolate_dependency_untracked"

\* tracked_of with a bug: paths with a space are kept
tracked_with_spaces(paths) == SelectSeq(paths, LAMBDA f : ~EndsWith(f, SLASH))

tracked_of(paths) == SelectSeq(paths, LAMBDA f : ~EndsWith(f, SLASH) /\ ~Contains(f, <<" ">>))
untracked_of(paths) == SelectSeq(paths, LAMBDA f : EndsWith(f, SLASH) \/ Contains(f, <<" ">>))

\* the 'variables' dictionary, as the list of its items: a key is set only
\* when its list is not empty
variables_of(paths) ==
  (IF tracked_of(paths) # <<>>
   THEN <<[key |-> KEY_TRACKED, list |-> tracked_of(paths)]>> ELSE <<>>)
  \o (IF untracked_of(paths) # <<>>
      THEN <<[key |-> KEY_UNTRACKED, list |-> untracked_of(paths)]>> ELSE <<>>)

\* ------------------------------------------------------------------------
\* trace_inputs
\* ------------------------------------------------------------------------

sys_executable == <<"/", "u", "s", "r", "/", "b", "i", "n", "/", "p", "y", "t", "h", "o", "n">>

\* fix_python_path(cmd), for a cmd that is not empty
fix_python_path(c) ==
  IF c[1] = <<"p", "y", "t", "h", "o", "n">> THEN <<sys_executable>> \o Tail(c)
  ELSE IF EndsWith(c[1], <<".", "p", "y">>) THEN <<sys_executable>> \o c
  ELSE c

\* get_flavor()
get_flavor(p) ==
  CASE p \in {"cygwin", "win32"} -> "win"
    [] p = "darwin" -> "mac"
    [] p = "sunos5" -> "solaris"
    [] p \in {"freebsd7", "freebsd8"} -> "freebsd"
    [] OTHER -> "linux"

\* the api trace_inputs builds, None when the platform is not supported
select_api(p) ==
  IF get_flavor(p) = "linux" THEN "Strace"
  ELSE IF get_flavor(p) = "mac" THEN "Dtrace"
  ELSE IF p = "win32" THEN "LogmanTrace"
  ELSE None

root_dir == P_r

\* the directory the child is started in
child_cwd(cd) ==
  IF cd # NoFile /\ Content(cd) # <<>> THEN PathJoin(root_dir, Content(cd)) ELSE root_dir

\* Dtrace._sort_log: the non-blank lines, sorted by their leading integer;
\* sorted() is stable
RECURSIVE InsertByIndex(_, _)
InsertByIndex(sorted, l) ==
  IF sorted = <<>> THEN <<l>>
  ELSE IF ToInt(l.index) < ToInt(sorted[1].index) THEN <<l>> \o sorted
  ELSE <<sorted[1]>> \o InsertByIndex(Tail(sorted), l)

RECURSIVE SortedByIndex(_)
SortedByIndex(lines) ==
  IF lines = <<>> THEN <<>>
  ELSE InsertByIndex(SortedByIndex(SubSeq(lines, 1, Len(lines) - 1)), lines[Len(lines)])

IsBlank(l) == l.form = "blank"

\* Dtrace._sort_log with a bug: the blank lines are kept
Dtrace_sort_log_blank(lines) == SortedByIndex(lines)

Dtrace_sort_log(lines) == SortedByIndex(SelectSeq(lines, LAMBDA l : ~IsBlank(l)))

\* content.split(' ', 1)[0]: the text before the first space, which is the
\* pid the first line starts with, and '' when the content is empty
Strace_first_word(content) == IF content = <<>> THEN <<>> ELSE content[1].pid

\* Strace.gen_trace, the log rewritten: '%s chdir("%s") = 0' and the content
Strace_inject(content, cwd) ==
  <<SLine("call", Strace_first_word(content), "chdir", <<cwd>>, R_OK0)>> \o content

\* What the tracers write. Strace: the output of strace for the child.
StraceOutputs ==
  { <<SLine("call", <<"1">>, "open", <<<<"a">>, RDONLY>>, R_FD3),
      SLine("call", <<"1">>, "exit_group", <<>>, R_EXIT)>>,
    <<SLine("call", <<"1">>, "open", <<P_r_n, RDONLY>>, R_ENOENT),
      SLine("call", <<"1">>, "read", <<>>, R_OK0)>> }

At(i, l) == [l EXCEPT !.index = i]

\* Dtrace: the output of dtrace, in the order the buffers were flushed
DtraceOutputs ==
  { <<At(<<"0">>, DLine(<<"1">>, <<"1">>, "chdir", <<P_r>>, R_OK0)),
      At(<<"1">>, DLine(<<"0">>, <<"1">>, "dtrace_BEGIN", <<>>, R_OK0)),
      At(<<"3">>, DLine(<<"1">>, <<"1">>, "proc_exit", <<>>, R_OK0)),
      [form |-> "blank", index |-> <<>>],
      At(<<"2">>, DLine(<<"1">>, <<"1">>, "open", <<<<"a">>, F_RDONLY, <<"0">>>>, R_OK0))>>,
    <<At(<<"0">>, DLine(<<"1">>, <<"1">>, "chdir", <<P_r>>, R_OK0)),
      At(<<"1">>, DLine(<<"1">>, <<"2">>, "open", <<<<"a">>, F_RDONLY, <<"0">>>>, R_OK0))>> }

\* LogmanTrace: the CSV tracerpt writes
EtwOutputs ==
  { <<HeaderLine,
      ELine("Process", "DCStart", <<"0", "x", "9">>, <<"0", "x", "8">>, <<"0", "x", "1">>, <<>>, LOGMAN),
      ELine("Process", "Start", <<"0", "x", "1">>, <<"0", "x", "2">>, <<"0", "x", "1">>, <<>>, "\"python.exe\""),
      ELine("FileIo", "Create", <<"0", "x", "2">>, <<>>, <<>>, Q(<<"\\", "D", "e", "v", "i", "c", "e", "\\", "V", "1", "\\", "r", "\\", "a">>), "")>>,
    <<HeaderLine, ELine("Thread", "Start", <<"0", "x", "2">>, <<>>, <<>>, <<>>, "")>> }

\* the logs a tracer leaves behind when all went well
LogsOf(a) ==
  CASE a = "Strace" ->
         {<<SLine("call", o[1].pid, "chdir", <<root_dir>>, R_OK0)>> \o o : o \in StraceOutputs}
    [] a = "Dtrace" -> {Dtrace_sort_log(o) : o \in DtraceOutputs}
    [] a = "LogmanTrace" -> EtwOutputs
    [] OTHER -> {<<>>}

\* the largest exit code of a child or a tracer
MaxExit == 2

ExitCodes == 0..MaxExit

Platforms == {"linux2", "darwin", "win32", "cygwin", "sunos5", "freebsd7", "aix5"}

Cmds == {<<>>, <<<<"p", "y", "t", "h", "o", "n">>, <<"t", ".", "p", "y">>>>, <<<<"/", "r", "/", "t", ".", "p", "y">>>>, <<<<"/", "b", "i", "n", "/", "l", "s">>>>, <<<<"l", "s">>>>}

\* the arguments of trace_inputs and the log that is there
InitTraceArgs ==
  /\ platform \in Platforms
  /\ logfile \in {NoFile} \cup {File(l) : l \in LogsOf(select_api(platform))}
  /\ force_trace \in BOOLEAN
  /\ cmd \in Cmds
  /\ cwd_dir \in {NoFile, File(<<>>), File(<<"d">>)}
  /\ tstate = "entry"
  /\ api = None
  /\ returncode = 0
  /\ parsed = NoResult
  /\ ret = NoReturn
  /\ log0 = logfile
  /\ events = <<>>
  /\ opt_log = TRUE
  /\ product_dir \in {NoFile, File(<<"o", "u", "t", "/", "R", "e", "l", "e", "a", "s", "e">>)}
  /\ stdout = <<>>
  /\ IdleParse /\ IdleGen /\ IdleOut /\ IdleDrives /\ IdleExtra

InitTrace == InitTraceArgs /\ run1 = NoRun

Raised(e) ==
  /\ tstate' = "raised"
  /\ ret' = [exc |-> e, code |-> -1]

Return(code) ==
  /\ tstate' = "returned"
  /\ ret' = [exc |-> "", code |-> code]

\* os.path of the platform
OsOf(p) == IF p = "win32" THEN "nt" ELSE "posix"

\* the root_dir argument, after realpath
RootDir(os) == IF os = "nt" THEN W_r ELSE root_dir

\* a line on stdout: what it says, its number and its strings
Line(tag, n, text) == [tag |-> tag, n |-> n, text |-> text, vars |-> <<>>]

\* print_if(txt): the text is printed when cwd_dir is None
print_if(out, line) == IF cwd_dir = NoFile THEN Append(out, line) ELSE out

LowerOpt(x) == IF x = NoFile THEN x ELSE File(StrLower(Content(x)))

\* trace_inputs up to the choice of the tracer: the assertions on the
\* arguments, fix_python_path, the lower case paths of win32 and the platform
TI_select ==
  /\ tstate = "entry"
  /\ IF cmd = <<>>
       THEN Raised("IndexError") /\ UNCHANGED <<cmd, api, cwd_dir, product_dir>>
     ELSE IF ~((logfile # NoFile /\ ~force_trace) \/ IsAbs(fix_python_path(cmd)[1]))
       THEN Raised("AssertionError") /\ UNCHANGED <<cmd, api, cwd_dir, product_dir>>
     ELSE /\ cmd' = fix_python_path(cmd)
          /\ cwd_dir' = IF platform = "win32" THEN LowerOpt(cwd_dir) ELSE cwd_dir
          /\ product_dir' = IF platform = "win32" THEN LowerOpt(product_dir) ELSE product_dir
          /\ IF select_api(platform) = None
               THEN Return(1) /\ UNCHANGED api
               ELSE /\ tstate' = "selected"
                    /\ api' = select_api(platform)
                    /\ UNCHANGED ret
  \* print >> sys.stderr, 'Unsupported platform %s' % sys.platform
  /\ events' = IF cmd # <<>> /\ tstate' = "returned"
                THEN Append(events, "Unsupported platform") ELSE events
  /\ UNCHANGED <<platform, logfile, force_trace, returncode, parsed, log0>>
  /\ UNCHANGED <<opt_log, stdout, run1>>
  /\ UNCHANGED <<parseVars, genVars, outVars, driveVars, extraVars>>

\* must_trace with a bug: force_trace is not looked at
must_trace_unforced(log, force) == log = NoFile

\* must_trace with a bug: the log that is there is not used
must_trace_always(log, force) == TRUE

\* if not os.path.isfile(logfile) or force_trace
must_trace(log, force) == log = NoFile \/ force

\* the test whether to trace; the log that is there is removed before tracing
TI_check_log ==
  /\ tstate = "selected"
  /\ IF must_trace(logfile, force_trace)
       THEN /\ tstate' = "tracing"
            /\ logfile' = NoFile
            /\ events' = IF logfile # NoFile THEN Append(events, "remove") ELSE events
            /\ stdout' = print_if(stdout, Line("Tracing", 0, cmd))
       ELSE /\ tstate' = "loading"
            /\ UNCHANGED <<logfile, events, stdout>>
  /\ UNCHANGED <<platform, force_trace, cmd, cwd_dir, api, returncode, parsed, ret, log0>>
  /\ UNCHANGED <<opt_log, product_dir, run1>>
  /\ UNCHANGED <<parseVars, genVars, outVars, driveVars, extraVars>>

\* Traced with a bug: a code that is not 0 never ends trace_inputs
Traced_continue(code, log, printed) ==
  /\ returncode' = code
  /\ logfile' = log
  /\ events' = Append(events, "gen_trace")
  /\ stdout' = stdout \o printed
  /\ tstate' = "loading" /\ UNCHANGED ret
  /\ UNCHANGED <<platform, force_trace, cmd, cwd_dir, api, parsed, log0>>
  /\ UNCHANGED <<opt_log, product_dir, run1>>
  /\ UNCHANGED <<parseVars, genVars, outVars, driveVars, extraVars>>

\* returncode = api.gen_trace(...); if returncode and not force_trace: return
Traced(code, log, printed) ==
  /\ returncode' = code
  /\ logfile' = log
  /\ events' = Append(events, "gen_trace")
  /\ stdout' = stdout \o printed
  /\ IF code # 0 /\ ~force_trace
       THEN Return(code)
       ELSE tstate' = "loading" /\ UNCHANGED ret
  /\ UNCHANGED <<platform, force_trace, cmd, cwd_dir, api, parsed, log0>>
  /\ UNCHANGED <<opt_log, product_dir, run1>>
  /\ UNCHANGED <<parseVars, genVars, outVars, driveVars, extraVars>>

\* print 'Failure: %d' % child.returncode, then what the child wrote
Failure(code) == IF code # 0 THEN <<Line("Failure", code, <<>>)>> ELSE <<>>

\* Strace.gen_trace: strace runs the child and may write the log; the chdir
\* line is put in front of a log that is there
TI_Strace_gen_trace ==
  /\ tstate = "tracing" /\ api = "Strace"
  /\ \E wrote \in BOOLEAN, code \in ExitCodes, out \in StraceOutputs :
       Traced(code,
              IF wrote
              THEN File(Strace_inject(out, child_cwd(cwd_dir)))
              ELSE NoFile,
              Failure(code))

\* Dtrace.gen_trace: the log is removed when dtrace failed and sorted when
\* it did not
TI_Dtrace_gen_trace ==
  /\ tstate = "tracing" /\ api = "Dtrace"
  /\ \E dtrace_code \in ExitCodes, child_code \in ExitCodes, out \in DtraceOutputs :
       Traced(IF dtrace_code # 0 THEN dtrace_code ELSE child_code,
              IF dtrace_code # 0 THEN NoFile ELSE File(Dtrace_sort_log(out)),
              (IF dtrace_code # 0 THEN <<Line("dtrace failure", dtrace_code, <<>>)>> ELSE <<>>)
                \o Failure(child_code))

\* LogmanTrace.gen_trace: check_call raises when logman or tracerpt fails
TI_LogmanTrace_gen_trace ==
  /\ tstate = "tracing" /\ api = "LogmanTrace"
  /\ \E tools_ok \in BOOLEAN, child_code \in ExitCodes, out \in EtwOutputs :
       IF tools_ok THEN Traced(child_code, File(out), Failure(child_code))
       ELSE /\ Raised("CalledProcessError")
            /\ events' = Append(events, "gen_trace")
            /\ UNCHANGED <<platform, logfile, force_trace, cmd, cwd_dir, api, returncode,
                           parsed, log0>>
            /\ UNCHANGED <<parseVars, moreVars, genVars, outVars, driveVars, extraVars>>

\* files, non_existent = api.parse_log(logfile, blacklist)
parse_log(a, lines) ==
  CASE a = "Strace" ->
         LET c == Strace_feed(NewContext, lines) IN
         [err |-> c.err, pair |-> Strace_parse_log_return(c)]
    [] a = "Dtrace" ->
         LET c == Dtrace_feed(NewContext, lines) IN
         [err |-> c.err, pair |-> Dtrace_parse_log_return(c)]
    [] a = "LogmanTrace" ->
         LET c == LogmanTrace_feed(LogmanTrace_NewContext, lines) IN
         [err |-> c.err, pair |-> LogmanTrace_parse_log_return(c)]

TI_parse_log ==
  /\ tstate = "loading"
  /\ events' = Append(events, "parse_log")
  /\ stdout' = print_if(stdout, Line("Loading traces", 0, <<>>))
  /\ IF logfile = NoFile THEN Raised("IOError") /\ UNCHANGED parsed
     ELSE LET r == parse_log(api, Content(logfile)) IN
          IF r.err # NoErr THEN Raised(r.err) /\ UNCHANGED parsed
          ELSE tstate' = "parsed" /\ parsed' = r.pair /\ UNCHANGED ret
  /\ UNCHANGED <<platform, logfile, force_trace, cmd, cwd_dir, api, returncode, log0>>
  /\ UNCHANGED <<opt_log, product_dir, run1>>
  /\ UNCHANGED <<parseVars, genVars, outVars, driveVars, extraVars>>

\* one line for each path of a list
Lines(paths) == [i \in 1..Len(paths) |-> Line("path", 0, <<paths[i]>>)]

\* the lines trace_inputs prints after parse_log when cwd_dir is None
report_text(pair, rf, ed) ==
  <<Line("Total", Cardinality(pair.files), <<>>),
    Line("Non existent", Cardinality(pair.non_existent), <<>>)>>
  \o Lines(SortedSet(pair.non_existent))
  \o (IF rf.unexpected # <<>>
      THEN <<Line("Unexpected", Len(rf.unexpected), <<>>)>> \o Lines(rf.unexpected)
      ELSE <<>>)
  \o <<Line("Interesting", Len(rf.expected), <<>>),
       Line("reduced to", Len(ed.simplified), <<>>)>>
  \o Lines(ed.simplified)

\* the value trace_inputs prints when cwd_dir is given
report_value(os, ed, product, cwd) ==
  [Line("value", 0, <<>>) EXCEPT !.vars = variables_of(rebase(os, ed.simplified, product, cwd))]

report_simplified(os, pair, rf, ed, product, cwd) ==
  [err |-> IF rf.err # NoErr THEN rf.err ELSE ed.err,
   out |-> IF cwd = NoFile THEN report_text(pair, rf, ed)
           ELSE <<report_value(os, ed, product, cwd)>>]

report_relevant(os, pair, rf, product, cwd) ==
  report_simplified(os, pair, rf,
                    extract_directories(os, rf.expected, RootDir(os),
                                        IF os = "nt" THEN WinListing ELSE PosixListing),
                    product, cwd)

\* what trace_inputs prints after parse_log; a set is gone through in the
\* order of its elements' hashes, the same for the same set
report(os, pair, product, cwd) ==
  report_relevant(os, pair,
                  relevant_files(SortedSet(pair.files),
                                 RStrip(RootDir(os), OsSep(os)[1]) \o OsSep(os)),
                  product, cwd)

\* TI_output with a bug: what gen_trace returned is returned
TI_output_returncode ==
  /\ tstate = "parsed"
  /\ LET r == report(OsOf(platform), parsed, product_dir, cwd_dir) IN
       /\ stdout' = stdout \o r.out
       /\ events' = IF cwd_dir # NoFile THEN Append(events, "pretty_print") ELSE events
       /\ Return(returncode)
  /\ UNCHANGED <<platform, logfile, force_trace, cmd, cwd_dir, api, returncode, parsed, log0>>
  /\ UNCHANGED <<opt_log, product_dir, run1>>
  /\ UNCHANGED <<parseVars, genVars, outVars, driveVars, extraVars>>

\* the rest of trace_inputs: relevant_files, extract_directories, and the
\* value printed when cwd_dir is given
TI_output ==
  /\ tstate = "parsed"
  /\ LET r == report(OsOf(platform), parsed, product_dir, cwd_dir) IN
       IF r.err # NoErr
       THEN Raised(r.err) /\ UNCHANGED <<stdout, events>>
       ELSE /\ stdout' = stdout \o r.out
            /\ events' = IF cwd_dir # NoFile THEN Append(events, "pretty_print") ELSE events
            /\ Return(0)
  /\ UNCHANGED <<platform, logfile, force_trace, cmd, cwd_dir, api, returncode, parsed, log0>>
  /\ UNCHANGED <<opt_log, product_dir, run1>>
  /\ UNCHANGED <<parseVars, genVars, outVars, driveVars, extraVars>>

NextTrace ==
  \/ TI_select
  \/ TI_check_log
  \/ TI_Strace_gen_trace
  \/ TI_Dtrace_gen_trace
  \/ TI_LogmanTrace_gen_trace
  \/ TI_parse_log
  \/ TI_output

SpecTrace == InitTrace /\ [][NextTrace]_vars

\* ------------------------------------------------------------------------
\* trace_inputs called twice with the same arguments, the filesystem left as
\* the first call left it
\* ------------------------------------------------------------------------

InitTwoRuns ==
  /\ InitTraceArgs
  /\ run1 = [NoRun EXCEPT !.args = <<cmd, cwd_dir, product_dir>>, !.log0 = logfile]

Ended == tstate \in {"returned", "raised"}

\* the second call: the arguments of the first, the log the first one left
TI_again ==
  /\ Ended /\ ~run1.done
  /\ run1' = [run1 EXCEPT !.done = TRUE, !.stdout = stdout, !.ret = ret, !.logfile = logfile]
  /\ cmd' = run1.args[1]
  /\ cwd_dir' = run1.args[2]
  /\ product_dir' = run1.args[3]
  /\ tstate' = "entry"
  /\ api' = None
  /\ returncode' = 0
  /\ parsed' = NoResult
  /\ ret' = NoReturn
  /\ log0' = logfile
  /\ events' = <<>>
  /\ stdout' = <<>>
  /\ UNCHANGED <<platform, logfile, force_trace, opt_log>>
  /\ UNCHANGED <<parseVars, genVars, outVars, driveVars, extraVars>>

NextTwoRuns == NextTrace \/ TI_again

SpecTwoRuns == InitTwoRuns /\ [][NextTwoRuns]_vars

\* C12: two calls of trace_inputs with the same arguments, a log that is
\* there, force_trace false and the filesystem unchanged print the same and
\* return the same; the first call leaves the log as it was.
C12_SecondRunIsTheSame ==
  (run1.done /\ run1.log0 # NoFile /\ ~force_trace) =>
    /\ run1.logfile = run1.log0
    /\ Ended => (stdout = run1.stdout /\ ret = run1.ret)

\* both calls have printed and returned 0
C12_Witness ==
  /\ run1.done /\ run1.log0 # NoFile /\ ~force_trace
  /\ Ended
  /\ ret = [exc |-> "", code |-> 0]
  /\ Len(stdout) > 2


\* ------------------------------------------------------------------------
\* trace_inputs: tracing and the return code
\* ------------------------------------------------------------------------

Done(e) == \E i \in 1..Len(events) : events[i] = e

Before(e1, e2) ==
  \E i, j \in 1..Len(events) : i < j /\ events[i] = e1 /\ events[j] = e2

\* trace_inputs has a driver and is past the test whether to trace
PastCheck == api # None /\ tstate \notin {"entry", "selected"}

\* C8: once trace_inputs has a driver, gen_trace is called iff the log file
\* was absent or force is set; a log that was there is removed before the
\* call, so that gen_trace starts without a log; when the log exists and
\* force is false nothing is spawned and the log is neither removed nor
\* rewritten.
C8_TraceIffAbsentOrForced ==
  /\ tstate = "tracing" =>
       /\ log0 = NoFile \/ force_trace
       /\ logfile = NoFile
       /\ ~Done("gen_trace")
  /\ (PastCheck /\ tstate # "tracing") =>
       (Done("gen_trace") <=> (log0 = NoFile \/ force_trace))
  /\ Done("gen_trace") =>
       /\ log0 = NoFile \/ force_trace
       /\ log0 # NoFile => Before("remove", "gen_trace")
  /\ (log0 # NoFile /\ ~force_trace) =>
       /\ ~Done("gen_trace")
       /\ ~Done("remove")
       /\ logfile = log0

\* a forced run over a log that was there: removed, then traced
C8_Witness ==
  /\ log0 # NoFile /\ force_trace
  /\ Before("remove", "gen_trace")
  /\ tstate = "returned"

\* C9: when gen_trace has returned a code that is not 0 and force is false,
\* trace_inputs has returned exactly that code, and neither parsed the log
\* nor printed the value.
C9_FailedTraceReturnsCode ==
  (Done("gen_trace") /\ returncode # 0 /\ ~force_trace) =>
    /\ tstate = "returned"
    /\ ret = [exc |-> "", code |-> returncode]
    /\ ~Done("parse_log")
    /\ ~Done("pretty_print")
    /\ parsed = NoResult

C9_Witness ==
  /\ Done("gen_trace") /\ returncode = MaxExit /\ ~force_trace
  /\ cwd_dir # NoFile
  /\ tstate = "returned"

\* C10 as stated: whenever gen_trace returned a code that is not 0,
\* trace_inputs returns that code, whatever force is.
C10_NonZeroAlwaysReturned ==
  (tstate = "returned" /\ Done("gen_trace") /\ returncode # 0) => ret.code = returncode

\* C10: trace_inputs returns 0 only when gen_trace was not called, returned
\* 0, or force is set; with force set a code that is not 0 is dropped:
\* the log is parsed and a run that then returns, returns 0.
C10_ZeroOnlyOnSuccessOrForce ==
  /\ (tstate = "returned" /\ ret.code = 0) =>
       (~Done("gen_trace") \/ returncode = 0 \/ force_trace)
  /\ (Done("gen_trace") /\ returncode # 0 /\ force_trace) =>
       /\ Done("parse_log") \/ tstate = "loading"
       /\ tstate = "returned" => ret.code = 0

C10_Witness ==
  /\ tstate = "returned" /\ ret.code = 0
  /\ Done("gen_trace") /\ returncode # 0 /\ force_trace


\* ------------------------------------------------------------------------
\* main
\* ------------------------------------------------------------------------

\* the command as it is typed
MainArgs == {<<>>, <<<<"p", "y", "t", "h", "o", "n">>, <<"t", ".", "p", "y">>>>, <<<<"t", ".", "p", "y">>>>, <<<<"/", "b", "i", "n", "/", "l", "s">>>>, <<<<"l", "s">>>>}

\* the default of --product-dir
DefaultProductDir == <<"o", "u", "t", "/", "R", "e", "l", "e", "a", "s", "e">>

InitMain ==
  /\ platform \in Platforms
  /\ logfile \in {NoFile} \cup {File(l) : l \in LogsOf(select_api(platform))}
  /\ force_trace \in BOOLEAN
  /\ cmd \in MainArgs
  /\ cwd_dir \in {NoFile, File(<<>>), File(<<"d">>)}
  /\ tstate = "main"
  /\ api = None
  /\ returncode = 0
  /\ parsed = NoResult
  /\ ret = NoReturn
  /\ log0 = logfile
  /\ events = <<>>
  /\ opt_log \in BOOLEAN
  /\ product_dir = File(DefaultProductDir)
  /\ stdout = <<>>
  /\ run1 = NoRun
  /\ IdleParse /\ IdleGen /\ IdleOut /\ IdleDrives /\ IdleExtra

\* main: parser.error leaves with SystemExit; args[0] is made absolute; then
\* trace_inputs is called
main ==
  /\ tstate = "main"
  /\ IF ~opt_log
       THEN Raised("SystemExit") /\ UNCHANGED cmd
     ELSE IF cmd = <<>> /\ (logfile = NoFile \/ force_trace)
       THEN Raised("SystemExit") /\ UNCHANGED cmd
     ELSE /\ tstate' = "entry"
          /\ cmd' = IF cmd = <<>> THEN cmd ELSE <<AbsPath(cmd[1])>> \o Tail(cmd)
          /\ UNCHANGED ret
  /\ UNCHANGED <<platform, logfile, force_trace, cwd_dir, api, returncode, parsed, log0, events>>
  /\ UNCHANGED <<parseVars, moreVars, genVars, outVars, driveVars, extraVars>>

NextMain ==
  \/ main
  \/ NextTrace

SpecMain == InitMain /\ [][NextMain]_vars

\* C11: when the log exists and force is not set, main followed by
\* trace_inputs with no command parses the log and returns 0 without raising.
C11_NoCommandParsesLog ==
  (tstate \in {"returned", "raised"} /\ opt_log /\ cmd = <<>> /\ log0 # NoFile /\ ~force_trace)
    => /\ tstate = "returned"
       /\ ret = [exc |-> "", code |-> 0]
       /\ Done("parse_log")


\* ------------------------------------------------------------------------
\* Dtrace.gen_trace, step by step
\* ------------------------------------------------------------------------

Held == [state |-> "held", code |-> 0]
Running == [state |-> "running", code |-> 0]
Exited(c) == [state |-> "exited", code |-> c]

\* what dtrace may have written when it is looked at before it has ended
Prefixes == {SubSeq(o, 1, n) : o \in DtraceOutputs, n \in 0..2}

InitDtrace ==
  /\ platform = "darwin"
  /\ logfile = NoFile
  /\ force_trace \in BOOLEAN
  /\ cmd \in {c \in Cmds : c # <<>> /\ IsAbs(fix_python_path(c)[1])}
  /\ cwd_dir \in {NoFile, File(<<>>), File(<<"d">>)}
  /\ tstate = "d_start"
  /\ api = "Dtrace"
  /\ returncode = 0
  /\ parsed = NoResult
  /\ ret = NoReturn
  /\ log0 = NoFile
  /\ events = <<>>
  /\ IdleParse /\ IdleMore /\ IdleGen /\ IdleOut /\ IdleDrives /\ IdleExtra

DT_unchanged ==
  UNCHANGED <<platform, force_trace, cmd, cwd_dir, api, returncode, parsed, log0,
              parseVars, moreVars, outVars, driveVars, extraVars>>

\* Parts 1 to 3: the child is started and waits for the signal, the log is
\* created, dtrace is started, and the log is read until dtrace_BEGIN is
\* there or dtrace has ended
DT_start ==
  /\ tstate = "d_start"
  /\ child' = Held
  /\ \/ dtrace' = Running /\ logfile' = File(<<>>)
     \/ \E c \in ExitCodes \ {0} : dtrace' = Exited(c) /\ logfile' = File(<<>>)
  /\ tstate' = "d_ready"
  /\ UNCHANGED <<ret, events>>
  /\ DT_unchanged

\* DT_interrupted with a bug: the interrupt is raised again at once
DT_interrupted_unsorted(log, done) ==
  /\ events' = done
  /\ Raised("KeyboardInterrupt")
  /\ logfile' = log

\* except KeyboardInterrupt: cls._sort_log(logname); raise
\* _sort_log opens the log first: IOError when it is not there
DT_interrupted(log, done) ==
  /\ events' = Append(done, "sort")
  /\ IF log = NoFile
       THEN Raised("IOError") /\ logfile' = NoFile
       ELSE Raised("KeyboardInterrupt") /\ logfile' = File(Dtrace_sort_log(Content(log)))

\* Part 4: out, err = child.communicate(signal)
DT_communicate ==
  /\ tstate = "d_ready"
  /\ \E c \in ExitCodes : child' = Exited(c)
  /\ events' = Append(events, "release")
  /\ tstate' = "d_child_done"
  /\ UNCHANGED <<dtrace, logfile, ret>>
  /\ DT_unchanged

\* KeyboardInterrupt while communicate waits for the child
DT_interrupt_communicate ==
  /\ tstate = "d_ready"
  /\ child' = Running
  /\ \E pre \in Prefixes : DT_interrupted(File(pre), Append(events, "release"))
  /\ UNCHANGED dtrace
  /\ DT_unchanged

\* dtrace.wait()
DT_wait ==
  /\ tstate = "d_child_done"
  /\ IF dtrace.state = "exited"
       THEN UNCHANGED <<dtrace, logfile>>
       ELSE \E c \in ExitCodes, out \in DtraceOutputs :
              dtrace' = Exited(c) /\ logfile' = File(out)
  /\ tstate' = "d_dtrace_done"
  /\ UNCHANGED <<child, ret, events>>
  /\ DT_unchanged

\* KeyboardInterrupt while dtrace.wait() waits
DT_interrupt_wait ==
  /\ tstate = "d_child_done"
  /\ dtrace.state = "running"
  /\ \E pre \in Prefixes : DT_interrupted(File(pre), events)
  /\ UNCHANGED <<child, dtrace>>
  /\ DT_unchanged

\* the log is removed when dtrace failed and sorted when it did not
DT_settle ==
  /\ tstate = "d_dtrace_done"
  /\ IF dtrace.code # 0
       THEN logfile' = NoFile /\ events' = Append(events, "remove")
       ELSE logfile' = File(Dtrace_sort_log(Content(logfile)))
            /\ events' = Append(events, "sort")
  /\ tstate' = "d_settled"
  /\ UNCHANGED <<child, dtrace, ret>>
  /\ DT_unchanged

\* DT_return with a bug: the code of dtrace is not looked at
DT_return_child ==
  /\ tstate = "d_settled"
  /\ Return(child.code)
  /\ UNCHANGED <<child, dtrace, logfile, events>>
  /\ DT_unchanged

\* return dtrace.returncode or child.returncode
DT_return ==
  /\ tstate = "d_settled"
  /\ Return(IF dtrace.code # 0 THEN dtrace.code ELSE child.code)
  /\ UNCHANGED <<child, dtrace, logfile, events>>
  /\ DT_unchanged

\* KeyboardInterrupt while the failures are printed
DT_interrupt_print ==
  /\ tstate = "d_settled"
  /\ DT_interrupted(logfile, events)
  /\ UNCHANGED <<child, dtrace>>
  /\ DT_unchanged

NextDtrace ==
  \/ DT_start
  \/ DT_communicate
  \/ DT_interrupt_communicate
  \/ DT_wait
  \/ DT_interrupt_wait
  \/ DT_settle
  \/ DT_return
  \/ DT_interrupt_print

SpecDtrace == InitDtrace /\ [][NextDtrace]_vars

\* C13: when Dtrace.gen_trace returns, the log exists iff dtrace ended with
\* code 0, whatever the code of the child; the value returned is the code of
\* dtrace when that is not 0 and the code of the child otherwise; both
\* processes have ended.
C13_LogIffDtraceSucceeded ==
  (tstate = "returned") =>
    /\ (logfile # NoFile) <=> (dtrace.code = 0)
    /\ ret.code = IF dtrace.code # 0 THEN dtrace.code ELSE child.code
    /\ child.state = "exited" /\ dtrace.state = "exited"

\* the child failed, dtrace did not: the log is kept
C13_Witness ==
  /\ tstate = "returned"
  /\ dtrace.code = 0 /\ child.code = MaxExit
  /\ logfile # NoFile
  /\ ret.code = MaxExit

\* C14 as stated: a run that released the child has run _sort_log when it
\* returns or raises.
C14_AlwaysSorted ==
  (tstate \in {"returned", "raised"} /\ Done("release")) => Done("sort")

\* C14: a run that released the child and returns or raises has run
\* _sort_log, except that after a dtrace failure the log is removed and is
\* not sorted; a run that is interrupted calls _sort_log before it raises.
C14_SortedUnlessDtraceFailed ==
  /\ (tstate \in {"returned", "raised"} /\ Done("release")) =>
       \/ Done("sort")
       \/ dtrace.code # 0 /\ Done("remove") /\ logfile = NoFile
  /\ (tstate = "returned" /\ dtrace.code = 0) => Done("sort")
  /\ (tstate = "returned" /\ dtrace.code # 0) => ~Done("sort")
  /\ tstate = "raised" => events[Len(events)] = "sort"

\* interrupted while waiting for dtrace: sorted, then raised
C14_Witness ==
  /\ tstate = "raised" /\ ret.exc = "KeyboardInterrupt"
  /\ child.state = "exited" /\ dtrace.state = "running"
  /\ Done("sort")



\* ------------------------------------------------------------------------
\* relevant_files, extract_directories and the rebase step, on any input
\* ------------------------------------------------------------------------

\* the trees under the root /r, as the names os.listdir gives
Tree1 == (P_r :> {<<"a">>, <<"s", "u", "b">>}) @@ (<<"/", "r", "/", "s", "u", "b">> :> {<<"u">>, <<"v">>})

Tree2 == (P_r :> {<<"a">>, <<"b", " ", "c">>})

Tree3 ==
  (P_r :> {<<"d">>, <<"o", "u", "t">>, <<".", "s", "v", "n">>}) @@ (P_r_d :> {<<"b">>, <<"x", ".", "p", "y", "c">>, <<"y", ".", "s", "v", "n">>}) @@
  (<<"/", "r", "/", "o", "u", "t">> :> {<<"R", "e", "l", "e", "a", "s", "e">>, <<"q">>}) @@ (<<"/", "r", "/", "o", "u", "t", "/", "R", "e", "l", "e", "a", "s", "e">> :> {<<"p">>}) @@
  (<<"/", "r", "/", ".", "s", "v", "n">> :> {})

Trees == {Tree1, Tree2, Tree3}

\* the files of a tree
FilesOf(t) == UNION {{PathJoin(d, n) : n \in t[d]} : d \in DOMAIN t} \ DOMAIN t

\* the files of a tree that parse_log can give: the blacklist of trace_inputs
\* takes out the paths that end in .pyc
TracedFilesOf(t) == {f \in FilesOf(t) : ~EndsWith(f, <<".", "p", "y", "c">>)}

\* the most paths relevant_files is given
MaxFiles == 3

SeqsUpTo(S, n) == UNION {[1..k -> S] : k \in 0..n}

InitOutput ==
  /\ tree \in Trees
  /\ files_in \in SeqsUpTo(TracedFilesOf(tree) \cup {P_usr_x}, MaxFiles)
  /\ cwd_dir \in {File(<<>>), File(<<"d">>), File(<<"s", "u", "b", "/">>), File(<<".">>)}
  /\ product_dir \in {NoFile, File(<<>>), File(DefaultProductDir)}
  /\ ostate = "start"
  /\ expected = <<>>
  /\ unexpected = <<>>
  /\ simplified = <<>>
  /\ corrected = <<>>
  /\ variables = <<>>
  /\ platform = "linux2"
  /\ logfile = NoFile
  /\ force_trace = FALSE
  /\ cmd = <<>>
  /\ tstate = "idle"
  /\ api = None
  /\ returncode = 0
  /\ parsed = NoResult
  /\ ret = NoReturn
  /\ log0 = NoFile
  /\ events = <<>>
  /\ opt_log = TRUE
  /\ stdout = <<>>
  /\ run1 = NoRun
  /\ IdleParse /\ IdleGen /\ IdleDrives /\ IdleExtra

OUT_unchanged ==
  UNCHANGED <<files_in, tree, parseVars, traceVars, moreVars, genVars, driveVars, extraVars>>

\* expected, unexpected = relevant_files(files, root_dir.rstrip(sep) + sep)
OUT_relevant_files ==
  /\ ostate = "start"
  /\ LET r == relevant_files(files_in, RStrip(root_dir, "/") \o SLASH) IN
       /\ ostate' = IF r.err # NoErr THEN "raised" ELSE "relevant"
       /\ expected' = r.expected
       /\ unexpected' = r.unexpected
  /\ UNCHANGED <<simplified, corrected, variables>>
  /\ OUT_unchanged

\* simplified = extract_directories(expected, root_dir)
OUT_extract_directories ==
  /\ ostate = "relevant"
  /\ LET r == extract_directories("posix", expected, root_dir, tree) IN
       /\ ostate' = IF r.err # NoErr THEN "raised" ELSE "simplified"
       /\ simplified' = r.simplified
  /\ UNCHANGED <<expected, unexpected, corrected, variables>>
  /\ OUT_unchanged

\* corrected = [fix(f) for f in simplified]
OUT_rebase ==
  /\ ostate = "simplified"
  /\ corrected' = rebase("posix", simplified, product_dir, cwd_dir)
  /\ ostate' = "rebased"
  /\ UNCHANGED <<expected, unexpected, simplified, variables>>
  /\ OUT_unchanged

\* tracked, untracked and the 'variables' dictionary
OUT_variables ==
  /\ ostate = "rebased"
  /\ variables' = variables_of(corrected)
  /\ ostate' = "done"
  /\ UNCHANGED <<expected, unexpected, simplified, corrected>>
  /\ OUT_unchanged

NextOutput ==
  \/ OUT_relevant_files
  \/ OUT_extract_directories
  \/ OUT_rebase
  \/ OUT_variables

SpecOutput == InitOutput /\ [][NextOutput]_vars


\* ------------------------------------------------------------------------
\* Properties of relevant_files, extract_directories and the rebase step
\* ------------------------------------------------------------------------

Extracted == ostate \in {"simplified", "rebased", "done"}

Root == RStrip(root_dir, "/") \o SLASH

\* a path under the root, relative to the root
Rel(p) == SubSeq(p, Len(Root) + 1, Len(p))

\* the names of a relative path
Names(p) == SelectSeq(StrSplit(p, "/"), LAMBDA x : x # <<>> /\ x # DOT)

IsVcsOrBytecode(n) == EndsWith(n, <<".", "s", "v", "n">>) \/ EndsWith(n, <<".", "p", "y", "c">>)

\* the files the tree holds under the directory D of the root, at any depth,
\* but for the names that end in .svn or .pyc
FilesUnder(D) ==
  {f \in FilesOf(tree) :
     /\ StartsWith(f, IF D = <<>> THEN Root ELSE Root \o D \o SLASH)
     /\ LET below == Names(SubSeq(f, Len(Root \o D) + 1, Len(f)))
        IN  \A i \in 1..Len(below) : ~IsVcsOrBytecode(below[i])}

InputDirs == {Dirname(f) : f \in Range(expected)}

\* C15: for every directory D that holds an input file, the entry D + '/' is
\* in the output of extract_directories iff every file of the tree under
\* root/D, but for the names ending in .svn or .pyc, is in the input; also
\* when D has sub-directories whose files are all in the input.
C15_CollapsedIffAllFilesSeen ==
  Extracted =>
    \A D \in InputDirs :
      (D \o SLASH \in Range(simplified))
        <=> (\A f \in FilesUnder(D) : Rel(f) \in Range(expected))

\* C16: for every entry d + '/' of the output, every name listed under
\* root/d, but for the names ending in .svn or .pyc, joined with d, is in the
\* input.
C16_CollapsedDirIsComplete ==
  Extracted =>
    \A e \in Range(simplified) :
      EndsWith(e, SLASH) =>
        LET d == SubSeq(e, 1, Len(e) - 1) IN
        \A n \in tree[NormPath(PathJoin(root_dir, d))] :
          ~IsVcsOrBytecode(n) => PathJoin(d, n) \in Range(expected)

C16_Witness ==
  /\ Extracted
  /\ tree = Tree1
  /\ simplified = <<<<"a">>, <<"s", "u", "b", "/">>>>

StrictlySorted(s) == \A i \in 1..(Len(s) - 1) : StrLess(s[i], s[i + 1])

\* C17: every input file is in the output of extract_directories or covered
\* by the entry of its directory, never both; the output is sorted and has no
\* duplicates.
C17_EveryFileOnceCovered ==
  Extracted =>
    /\ \A f \in Range(expected) :
         (f \in Range(simplified)) # (Dirname(f) \o SLASH \in Range(simplified))
    /\ StrictlySorted(simplified)

Relevant == ostate \in {"relevant", "simplified", "rebased", "done"}

C18_Inv ==
  Relevant =>
    /\ Range(expected) = {Rel(p) : p \in {q \in Range(files_in) : StartsWith(q, Root)}}
    /\ Range(unexpected) = {q \in Range(files_in) : ~StartsWith(q, Root)}
    /\ StrictlySorted(expected)
    /\ StrictlySorted(unexpected)

\* C18: relevant_files partitions its input: the paths under the root, root
\* removed, are expected, the others unexpected, nothing else is in either;
\* both lists are sorted without duplicates; the input is left as it was.
C18_RelevantFilesPartition == [](C18_Inv) /\ [][files_in' = files_in]_vars

\* an input with a duplicate and with paths on both sides
C18_Witness ==
  /\ Relevant
  /\ Len(files_in) = MaxFiles
  /\ Cardinality(Range(files_in)) = 2
  /\ Len(expected) = 1 /\ Len(unexpected) = 1

\* the relative path from the directory c of the root to the path f of the
\* root, both taken from the root; a trailing '/' is kept
RelativeFrom(f, c) ==
  LET path_list == Names(f)
      start_list == Names(c)
      i == CommonLen(start_list, path_list)
      rel_list == [k \in 1..(Len(start_list) - i) |-> DOTDOT]
                    \o SubSeq(path_list, i + 1, Len(path_list))
  IN  (IF rel_list = <<>> THEN DOT ELSE StrJoin(rel_list, "/"))
        \o (IF EndsWith(f, SLASH) THEN SLASH ELSE <<>>)

Rebased == ostate \in {"rebased", "done"}

\* C19: every simplified path that begins with the normalized product_dir is
\* '<(PRODUCT_DIR)/' and the rest of it; every other one is its relative
\* path from cwd_dir, with '..' for what is outside cwd_dir.
C19_RebasedOnProductOrCwd ==
  Rebased =>
    /\ Len(corrected) = Len(simplified)
    /\ \A i \in 1..Len(simplified) :
         LET f == simplified[i]
             pd == cleanuppath("posix", product_dir)
             cd == cleanuppath("posix", cwd_dir)
         IN  corrected[i] =
               IF pd # NoFile /\ Content(pd) # <<>> /\ StartsWith(f, Content(pd))
               THEN PRODUCT_DIR \o SubSeq(f, Len(Content(pd)) + 1, Len(f))
               ELSE RelativeFrom(f, Content(cd))

ItemsOf(key) == {i \in 1..Len(variables) : variables[i].key = key}

ListOf(key) == IF ItemsOf(key) = {} THEN <<>> ELSE variables[CHOOSE i \in ItemsOf(key) : TRUE].list

\* s is what is left of t when the elements that are not P are taken out
IsSubsequenceOf(s, t, keep) ==
  /\ Len(s) = Cardinality({i \in 1..Len(t) : t[i] \in keep})
  /\ \A i \in 1..Len(s) :
       s[i] = t[CHOOSE k \in 1..Len(t) :
                  t[k] \in keep /\ Cardinality({j \in 1..k : t[j] \in keep}) = i]

\* C20: every rebased path is in exactly one list: tracked holds the paths
\* with no trailing '/' and no space, untracked the others; both keep the
\* order of the simplified paths; a key whose list is empty is left out.
C20_TrackedUntrackedPartition ==
  ostate = "done" =>
    LET plain == {f \in Range(corrected) : ~EndsWith(f, SLASH) /\ ~Contains(f, <<" ">>)}
        other == Range(corrected) \ plain
    IN  /\ IsSubsequenceOf(ListOf(KEY_TRACKED), corrected, plain)
        /\ IsSubsequenceOf(ListOf(KEY_UNTRACKED), corrected, other)
        /\ \A i \in 1..Len(variables) :
             /\ variables[i].key \in {KEY_TRACKED, KEY_UNTRACKED}
             /\ variables[i].list # <<>>
        /\ Cardinality(ItemsOf(KEY_TRACKED)) <= 1
        /\ Cardinality(ItemsOf(KEY_UNTRACKED)) <= 1

\* two tracked paths that the rebase has put out of order, and one directory
C20_Witness ==
  /\ ostate = "done"
  /\ Len(ListOf(KEY_TRACKED)) = 2
  /\ StrLess(ListOf(KEY_TRACKED)[2], ListOf(KEY_TRACKED)[1])
  /\ Len(ListOf(KEY_UNTRACKED)) = 1

\* ------------------------------------------------------------------------
\* posix_relpath on its own: one call with a path and a base
\* ------------------------------------------------------------------------

\* the paths and the bases posix_relpath is called with
RelpathPaths ==
  { <<>>, <<"a">>, <<"a", "/">>, <<"d", "/", "b">>, <<"d", "/">>, <<"d", "/", "/">>, <<"/">>, <<".">>, <<".", "/">>, <<".", ".">>, <<".", ".", "/">>,
    <<"d", "/", ".", ".">>, <<"d", "/", ".", ".", "/">>, <<"/", "u", "s", "r", "/", "x">>, <<"/", "u", "s", "r", "/">>, <<"s", "u", "b", "/", "u">>, <<"o", "u", "t", "/", "R", "e", "l", "e", "a", "s", "e", "/">> }

RelpathBases == { <<>>, <<"d">>, <<"d", "/">>, <<"s", "u", "b", "/">>, <<".">>, <<"/">>, <<"/", "u", "s", "r">>, <<".", ".">> }

InitRelpath ==
  /\ files_in \in {<<p>> : p \in RelpathPaths}
  /\ cwd_dir \in {File(b) : b \in RelpathBases}
  /\ ostate = "start"
  /\ tree = <<>>
  /\ expected = <<>>
  /\ unexpected = <<>>
  /\ simplified = <<>>
  /\ corrected = <<>>
  /\ variables = <<>>
  /\ platform = "linux2"
  /\ logfile = NoFile
  /\ force_trace = FALSE
  /\ cmd = <<>>
  /\ tstate = "idle"
  /\ api = None
  /\ returncode = 0
  /\ parsed = NoResult
  /\ ret = NoReturn
  /\ log0 = NoFile
  /\ events = <<>>
  /\ IdleMore /\ IdleParse /\ IdleGen /\ IdleDrives /\ IdleExtra

\* one call of posix_relpath(path, root); posixpath.relpath raises ValueError
\* for an empty path
RP_posix_relpath ==
  /\ ostate = "start"
  /\ IF files_in[1] = <<>>
       THEN ostate' = "raised" /\ UNCHANGED corrected
       ELSE /\ corrected' = <<posix_relpath(files_in[1], Content(cwd_dir))>>
            /\ ostate' = "done"
  /\ UNCHANGED <<expected, unexpected, simplified, variables>>
  /\ OUT_unchanged

NextRelpath == RP_posix_relpath

SpecRelpath == InitRelpath /\ [][NextRelpath]_vars

\* C21: for every path p and base, posix_relpath(p, base) ends with '/' iff
\* p ends with '/'.
C21_TrailingSlashKept ==
  ostate = "done" => (EndsWith(corrected[1], SLASH) <=> EndsWith(files_in[1], SLASH))

\* a directory entry outside the base: the result climbs and keeps its '/'
C21_Witness ==
  /\ ostate = "done"
  /\ files_in = <<<<"o", "u", "t", "/", "R", "e", "l", "e", "a", "s", "e", "/">>>>
  /\ cwd_dir = File(<<"d", "/">>)
  /\ corrected = <<<<".", ".", "/", "o", "u", "t", "/", "R", "e", "l", "e", "a", "s", "e", "/">>>>


\* ------------------------------------------------------------------------
\* trace_inputs: the platforms
\* ------------------------------------------------------------------------

\* sys.platform of Linux, macOS and Windows
SupportedPlatforms == {"linux2", "darwin", "win32"}

\* C22: on a platform that is not Linux, macOS or Windows, the names
\* get_flavor does not know included, trace_inputs reports 'Unsupported
\* platform' and returns a code that is not 0; it removes no log, runs no
\* tracer and parses nothing.
C22_UnsupportedPlatformRefused ==
  platform \notin SupportedPlatforms =>
    /\ ~Done("remove") /\ ~Done("gen_trace") /\ ~Done("parse_log")
    /\ Ended => /\ Done("Unsupported platform")
                /\ ret.exc = "" /\ ret.code > 0


\* ------------------------------------------------------------------------
\* The parsers: names without a handler
\* ------------------------------------------------------------------------

\* C23: in the strace parser a call record whose function name has no handler
\* is a fatal error: parse_log stops at that record and returns nothing.
C23_StraceUnknownCallIsFatal ==
  (flavor = "linux" /\ last.form = "call" /\ last.fn \notin Strace_traces) =>
    /\ pstate = "raised"
    /\ context.err = "AttributeError"
    /\ result = NoResult

\* a read record after a file was recorded
C23_Witness ==
  /\ flavor = "linux"
  /\ last.form = "call" /\ last.fn = "read"
  /\ context.files # {}
  /\ pstate = "raised"


\* the names for which Dtrace._Context has a handle_ method
Dtrace_handlers ==
  {"dtrace_BEGIN", "proc_start", "proc_exit", "chdir", "open_nocancel", "open", "rename"}

\* one more line has been given to on_line
LineRead == nlines' = nlines + 1

\* C24: in the dtrace parser a record whose function name has no handler is
\* ignored: no error, the cwd of every pid, files and non_existent are as
\* they were, and parsing goes on.
C24_DtraceUnknownCallIgnored ==
  [][(flavor = "mac" /\ LineRead /\ last'.fn \notin Dtrace_handlers)
       => (context' = context /\ pstate' = "parsing")]_vars

\* a stat record after a chdir and an open that was recorded
C24_Witness ==
  /\ flavor = "mac"
  /\ last.fn = "stat"
  /\ context.files # {} /\ DOMAIN context.cwd # {}
  /\ pstate = "parsing"


\* a record of the ETW log that on_csv_line dispatches: after the header, with
\* the fixed columns as asserted, and no GUID in column 0
EtwDispatched(c, l) == c.first_line /\ ~l.header /\ l.fixed_ok /\ ~l.guid

\* C25: the ETW parser gives each record that is no GUID to the handler of
\* (Event Name, Type) when there is one, else to the handler of (Event Name,
\* 'Any') when there is one, and else fails.
C25_EtwSpecificThenAny ==
  [][(flavor = "win" /\ LineRead /\ EtwDispatched(context, last'))
       => LET l == last'
              specific == <<l.event, l.type>>
              any == <<l.event, "Any">>
          IN  IF specific \in LogmanTrace_handlers
                THEN context' = LogmanTrace_call(specific, context, l)
              ELSE IF any \in LogmanTrace_handlers
                THEN context' = LogmanTrace_call(any, context, l)
              ELSE context' = Raise(context, "AssertionError") /\ pstate' = "raised"]_vars

\* a FileIo Create record has put a file in, where FileIo_Any would not
C25_Witness ==
  /\ flavor = "win" /\ last.form = "csv"
  /\ last.event = "FileIo" /\ last.type = "Create"
  /\ nlines = 2
  /\ context.files # {}


\* ------------------------------------------------------------------------
\* The drive map
\* ------------------------------------------------------------------------

\* the NT devices that have a drive letter
MappedDevices == {QueryDosDevice[d] : d \in DOMAIN QueryDosDevice}

\* an NT path that is no device with a drive letter, nor a path on one
NoDrive(path) ==
  \A dev \in MappedDevices : path # dev /\ ~StartsWith(path, dev \o BSLASH)

\* C26: to_dos of an NT path whose device has no entry in the drive map, or
\* that is not of the form \Device\<name>, fails: the record ends the parse
\* with an error and no path is recorded for it.
C26_UnmappedDeviceFails ==
  [][(/\ flavor = "win" /\ LineRead /\ EtwDispatched(context, last')
      /\ last'.event = "FileIo" /\ last'.type = "Create"
      /\ Unquote(last'.file_path) # <<>>
      /\ NoDrive(Unquote(last'.file_path)))
       => /\ pstate' = "raised"
          /\ context'.err = "AssertionError"
          /\ context'.files = context.files
          /\ context'.non_existent = context.non_existent]_vars

\* \Device\V9\r\a, a device without a letter, after a file was recorded
C26_Witness ==
  /\ flavor = "win" /\ last.form = "csv"
  /\ last.event = "FileIo" /\ last.type = "Create"
  /\ StartsWith(Unquote(last.file_path), DEVICE_PREFIX \o <<"V", "9">>)
  /\ context.files # {}
  /\ pstate = "raised"


\* ------------------------------------------------------------------------
\* DosDriveMap(): the drive map is built from what QueryDosDevice gives
\* ------------------------------------------------------------------------

DEV_V3 == DEVICE_PREFIX \o <<"V", "3">>

\* the letters that may have a device, and the devices
SomeLetters == {<<"C", ":">>, <<"D", ":">>, <<"E", ":">>, <<"Z", ":">>}

SomeDevices == {DEV_V1, DEV_V2, DEV_V3}

\* every table of QueryDosDevice over these letters
DriveTables == UNION {[L -> SomeDevices] : L \in SUBSET SomeLetters}

InitDrives ==
  /\ drives \in DriveTables
  /\ mapping = NoMapping
  /\ IdleParse /\ IdleMore /\ IdleGen /\ IdleOut /\ IdleExtra
  /\ platform = "win32"
  /\ logfile = NoFile
  /\ force_trace = FALSE
  /\ cmd = <<>>
  /\ cwd_dir = NoFile
  /\ tstate = "idle"
  /\ api = None
  /\ returncode = 0
  /\ parsed = NoResult
  /\ ret = NoReturn
  /\ log0 = NoFile
  /\ events = <<>>

\* DosDriveMap(): _MAPPING is filled when it is empty; it is kept by the class
\* from one object to the next
DosDriveMap_new ==
  /\ mapping' =
       IF mapping.map = <<>>
       THEN [DosDriveMap_loop(drives, DriveLetters, [mapping EXCEPT !.err = NoErr])
               EXCEPT !.built = TRUE]
       ELSE [mapping EXCEPT !.err = NoErr]
  /\ UNCHANGED <<drives, parseVars, traceVars, moreVars, genVars, outVars, extraVars>>

NextDrives == DosDriveMap_new

SpecDrives == InitDrives /\ [][NextDrives]_vars

\* the place of a letter among C: to Z:
LetterIndex(letter) == CHOOSE i \in 1..Len(DriveLetters) : DriveLetters[i] = letter[1]

\* the letters of a device
LettersOf(dev) == {l \in DOMAIN drives : drives[l] = dev}

Collision == \E dev \in SomeDevices : Cardinality(LettersOf(dev)) >= 2

\* C27: when two drive letters have the same NT device, building the drive
\* map does not fail and gives that device the lower of the letters.
C27_CollisionKeepsLowerLetter ==
  (mapping.built /\ Collision) =>
    /\ mapping.err = NoErr
    /\ \A dev \in SomeDevices :
         LettersOf(dev) # {} =>
           /\ dev \in DOMAIN mapping.map
           /\ \A l \in LettersOf(dev) : LetterIndex(mapping.map[dev]) <= LetterIndex(l)


\* ------------------------------------------------------------------------
\* The parsers: the cwd of each pid
\* ------------------------------------------------------------------------

\* a record of the strace or dtrace log that is a call of fn by a pid
CallOf(l, fn) == flavor \in {"linux", "mac"} /\ l.form = "call" /\ l.fn = fn

\* the entries of the pids other than those of P are as they were
OtherPidsKeep(P) ==
  \A q \in (DOMAIN context.cwd \cup DOMAIN context'.cwd) \ P :
    /\ q \in DOMAIN context.cwd /\ q \in DOMAIN context'.cwd
    /\ context'.cwd[q] = context.cwd[q]

\* C28: in the strace and dtrace parsers a chdir record of pid p that
\* succeeded sets ctx[p] to the path when it is absolute and to
\* join(ctx[p], path) when it is relative; no other pid's entry changes.
C28_ChdirReplacesOrJoins ==
  [][(LineRead /\ CallOf(last', "chdir") /\ StartsWith(last'.result, <<"0">>))
       => LET p == ToInt(last'.pid)
              path == last'.args[1]
          IN  /\ IsAbs(path) => (p \in DOMAIN context'.cwd /\ context'.cwd[p] = path)
              /\ (~IsAbs(path) /\ p \in DOMAIN context.cwd)
                   => (/\ p \in DOMAIN context'.cwd
                       /\ context'.cwd[p] = PathJoin(context.cwd[p], path))
              /\ OtherPidsKeep({p})]_vars

\* chdir /r, chdir d, chdir d of pid 1 in the strace log
C28_Witness ==
  /\ flavor = "linux"
  /\ last.form = "call" /\ last.fn = "chdir"
  /\ 1 \in DOMAIN context.cwd
  /\ context.cwd[1] = P_r_d \o SLASH \o <<"d">>


\* the record that was read has started the child C of the parent P
Started(l, P, C) ==
  \/ /\ flavor = "linux" /\ l.form = "call" /\ l.fn = "clone"
     /\ IsDigits(l.result)
     /\ P = ToInt(l.pid) /\ C = ToInt(l.result)
  \/ /\ flavor = "mac" /\ l.form = "call" /\ l.fn = "proc_start"
     /\ l.result = <<"0">>
     /\ P = ToInt(l.ppid) /\ C = ToInt(l.pid)

ParserPids == {1, 2}

\* C29: a clone record (strace) or a proc_start record (dtrace) of the
\* parent P with the child C sets ctx[C] to what ctx[P] is at that record and
\* changes nothing else; a later chdir of one of them leaves the entry of the
\* other as it was.
C29_ChildInheritsCwd ==
  [][/\ \A P, C \in ParserPids :
          (LineRead /\ Started(last', P, C) /\ P \in DOMAIN context.cwd)
            => context' = [context EXCEPT !.cwd = DictSet(@, C, context.cwd[P])]
     /\ (LineRead /\ CallOf(last', "chdir") /\ context'.err = NoErr)
          => OtherPidsKeep({ToInt(last'.pid)})]_vars

\* pid 1 has gone to /r/d with a relative chdir and has cloned pid 2
C29_Witness ==
  /\ flavor = "linux"
  /\ last.form = "call" /\ last.fn = "clone"
  /\ DOMAIN context.cwd = {1, 2}
  /\ context.cwd[2] = P_r_d /\ context.cwd[1] = P_r_d
  /\ pstate = "parsing"


\* C30: in the strace parser a fork or vfork record of pid P that returns the
\* child pid C is handled as clone is: ctx[C] becomes ctx[P] and parsing goes
\* on.
C30_ForkHandledLikeClone ==
  [][\A P, C \in ParserPids :
       (/\ LineRead /\ flavor = "linux"
        /\ last'.form = "call" /\ last'.fn \in {"fork", "vfork"}
        /\ IsDigits(last'.result)
        /\ P = ToInt(last'.pid) /\ C = ToInt(last'.result)
        /\ P \in DOMAIN context.cwd)
         => /\ context' = [context EXCEPT !.cwd = DictSet(@, C, context.cwd[P])]
            /\ pstate' = "parsing"]_vars


\* the record that was read ends the process p
Exits(l, p) ==
  \/ /\ flavor = "linux"
     /\ \/ l.form = "killed"
        \/ l.form = "call" /\ l.fn = "exit_group"
     /\ p = ToInt(l.pid)
  \/ /\ flavor = "mac" /\ l.form = "call" /\ l.fn = "proc_exit"
     /\ p = ToInt(l.pid)

\* C31: an exit_group record or a killed line of pid p (strace), or a
\* proc_exit record of pid p (dtrace), removes the entry ctx[p] and nothing
\* else: afterwards p has no entry, the entry of every other pid is as it
\* was, and files and non_existent are as they were.
C31_ExitRemovesOnlyItsEntry ==
  [][\A p \in ParserPids :
       (LineRead /\ Exits(last', p))
         => /\ p \notin DOMAIN context'.cwd
            /\ OtherPidsKeep({p})
            /\ context'.files = context.files
            /\ context'.non_existent = context.non_existent]_vars

\* pid 2 was killed after pid 1 had cloned it and a file had been recorded
C31_Witness ==
  /\ flavor = "linux"
  /\ last.form = "killed"
  /\ DOMAIN context.cwd = {1}
  /\ context.files # {}
  /\ pstate = "parsing"


\* ------------------------------------------------------------------------
\* Strace: a log in which calls are split into an unfinished and a resumed
\* line, read next to the log in which the same calls are whole
\* ------------------------------------------------------------------------

\* the calls that are split
SplitCalls ==
  {SLine("call", p, "open", <<<<"a">>, RDONLY>>, R_FD3) : p \in StracePids}
  \cup {SLine("call", <<"1">>, "open", <<P_r_d_b, RDONLY, <<"4", "3", "8">>>>, R_UNAVAIL),
        SLine("call", <<"1">>, "open", <<P_r_n, RDONLY>>, R_ENOENT),
        SLine("call", <<"2">>, "chdir", <<<<"d">>>>, R_OK0),
        SLine("call", <<"1">>, "clone", <<>>, <<"2">>),
        SLine("call", <<"1">>, "rename", <<P_r_a, <<"b">>>>, R_OK0),
        SLine("call", <<"2">>, "read", <<>>, R_OK0)}

\* the call L cut after its first k arguments: the line that ends with
\* '<unfinished ...>' and the '<... fn resumed>' line
Unfinished(L, k) == SLine("unfinished", L.pid, L.fn, SubSeq(L.args, 1, k), <<>>)
Resumed(L, k) == SLine("resumed", L.pid, L.fn, SubSeq(L.args, k + 1, Len(L.args)), L.result)

\* the lines that are not split
WholeLines ==
  {SLine("call", p, "chdir", <<P_r>>, R_OK0) : p \in StracePids}
  \cup {SLine("call", <<"1">>, "chdir", <<<<"d">>>>, R_OK0),
        SLine("call", <<"1">>, "clone", <<>>, <<"2">>),
        SLine("call", <<"1">>, "open", <<<<"x">>, RDONLY>>, R_FD3),
        SLine("call", <<"2">>, "exit_group", <<>>, R_EXIT),
        SLine("killed", <<"1">>, "", <<>>, <<>>),
        SLine("signal", <<"2">>, "", <<>>, <<>>)}

\* the pid has a call that is not finished yet
InFlight(c, pid) == \E k \in DOMAIN c.pending_calls : k[1] = pid

InitStitch ==
  /\ flavor = "linux"
  /\ context = NewContext
  /\ twin = NewContext
  /\ pstate = "parsing"
  /\ result = NoResult
  /\ last = NoLine
  /\ nlines = 0
  /\ IdleTrace /\ IdleScript

\* on_line(l) on the log with the split calls, on_line(w) on the other log;
\* w is NoLine when the other log has no line here
Fed2(l, w) ==
  /\ context' = Strace_on_line(context, l)
  /\ twin' = IF w = NoLine THEN twin ELSE Strace_on_line(twin, w)
  /\ pstate' = IF context'.err # NoErr THEN "raised" ELSE "parsing"
  /\ last' = l
  /\ nlines' = nlines + 1
  /\ UNCHANGED <<flavor, result, traceVars, moreVars, genVars, outVars, driveVars, scriptVars>>

\* a line of a pid that has no call in flight: the same line in both logs
ST_whole_line ==
  /\ CanRead("linux")
  /\ \E l \in WholeLines : ~InFlight(context, l.pid) /\ Fed2(l, l)

\* the first half of a split call: nothing in the other log
ST_unfinished_line ==
  /\ CanRead("linux")
  /\ \E L \in SplitCalls, k \in 0..2 :
       /\ k <= Len(L.args)
       /\ ~InFlight(context, L.pid)
       /\ Fed2(Unfinished(L, k), NoLine)

\* the second half of a split call: the whole call in the other log
ST_resumed_line ==
  /\ CanRead("linux")
  /\ \E L \in SplitCalls, k \in 0..2 :
       /\ k <= Len(L.args)
       /\ <<L.pid, L.fn>> \in DOMAIN context.pending_calls
       /\ context.pending_calls[<<L.pid, L.fn>>] = SubSeq(L.args, 1, k)
       /\ Fed2(Resumed(L, k), L)

NextStitch ==
  \/ ST_whole_line
  \/ ST_unfinished_line
  \/ ST_resumed_line

SpecStitch == InitStitch /\ [][NextStitch]_vars

\* the context without its stash of pending lines
NoStash(c) == [c EXCEPT !.pending_calls = <<>>]

\* C32: for a strace call split into an '<unfinished ...>' line and a later
\* '<... fn resumed>' line of the same (pid, fn), with records of other pids
\* (and their own split calls) in between, the parser is after the resumed
\* line in the state that reading the whole call at that place gives: cwd,
\* files, non_existent and the error are those of the log without split
\* calls, and nothing is left in the stash for (pid, fn). The unfinished
\* line alone changes only the stash.
C32_SplitCallIsStitched ==
  /\ [](NoStash(context) = twin)
  /\ []((last.form = "resumed" /\ context.err = NoErr)
          => <<last.pid, last.fn>> \notin DOMAIN context.pending_calls)
  /\ [][(LineRead /\ last'.form = "unfinished")
          => /\ NoStash(context') = NoStash(context)
             /\ context'.pending_calls =
                  DictSet(context.pending_calls, <<last'.pid, last'.fn>>, last'.args)]_vars

\* an open of pid 1 was cut in two, with the first half of an open of pid 2
\* in between; the file of pid 1 was recorded
C32_Witness ==
  /\ last.form = "resumed" /\ last.pid = <<"1">>
  /\ context.files = {P_r_a}
  /\ DOMAIN context.cwd = {1}
  /\ <<<<"2">>, "open">> \in DOMAIN context.pending_calls
  /\ pstate = "parsing"


\* C33: a strace record of a canceled call, one whose result is
\* '? <unavailable>', as one line or as the resumed half of a split call, is
\* dropped: no handler is called, and the cwd of every pid, files and
\* non_existent are as they were.
C33_CanceledCallDropped ==
  [][(/\ LineRead /\ flavor = "linux"
      /\ last'.form \in {"call", "resumed"}
      /\ last'.result = R_UNAVAIL)
       => /\ context'.cwd = context.cwd
          /\ context'.files = context.files
          /\ context'.non_existent = context.non_existent
          /\ context'.err = NoErr]_vars


\* ------------------------------------------------------------------------
\* The parsers: a record of a pid that has no cwd
\* ------------------------------------------------------------------------

\* the record l of the strace or dtrace log looks up the cwd of the pid P:
\* a chdir or a file event that succeeded and has a relative path, a clone or
\* a proc_start whose parent is P
NeedsCwd(l, P) ==
  /\ Posix /\ l.form \in {"call", "resumed"}
  /\ \/ /\ l.fn = "chdir" /\ StartsWith(l.result, <<"0">>) /\ ~IsAbs(l.args[1])
        /\ P = ToInt(l.pid)
     \/ /\ IsFileEvent(l) /\ ~FailedResult(l) /\ ~DirectoryFlag(l)
        /\ \E f \in EventPaths(l) : ~IsAbs(f)
        /\ P = ToInt(l.pid)
     \/ /\ flavor = "linux" /\ l.fn = "clone" /\ l.result # R_RESTART
        /\ P = ToInt(l.pid)
     \/ /\ flavor = "mac" /\ l.fn = "proc_start" /\ l.result = <<"0">>
        /\ P = ToInt(l.ppid)

\* the paths of the context
Recorded(c) == c.files \cup c.non_existent

\* the absolute paths the record names, as _handle_file records them
NamedAbsolute(l) ==
  IF IsFileEvent(l)
  THEN {IF flavor = "mac" THEN NormPath(f) ELSE f : f \in {g \in EventPaths(l) : IsAbs(g)}}
  ELSE {}

C35_TrackedProcesses ==
  /\ [](flavor = "win" /\ nlines = 0 => context.processes = {})
  /\ [][(flavor = "win" /\ LineRead /\ EtwDispatched(context, last'))
          => LET l == last'
                 T == context.processes
             IN  context'.processes =
                   IF l.event = "Process" /\ l.type = "DCStart" /\ l.proc_name = LOGMAN
                     THEN T \cup {HexToInt(l.parent_pid)}
                   ELSE IF /\ l.event = "Process" /\ l.type = "Start"
                           /\ HexToInt(l.pid) \in T /\ l.proc_name # LOGMAN
                     THEN T \cup {HexToInt(l.child_pid)}
                   ELSE IF l.event = "Process" /\ l.type = "End"
                     THEN T \ {HexToInt(l.pid)}
                   ELSE T]_vars

\* logman's parent 1 was found, it started 2, and 1 has ended
C35_Witness ==
  /\ flavor = "win" /\ last.form = "csv"
  /\ last.event = "Process" /\ last.type = "End"
  /\ context.processes = {2}
  /\ pstate = "parsing"


\* ------------------------------------------------------------------------
\* Dtrace._sort_log on any log, applied twice
\* ------------------------------------------------------------------------

BlankLine == [form |-> "blank", index |-> <<>>]

\* lines as the D script prints them; two of them have the index 2, one of
\* them written 02, and 10 comes after 9 as a number only
SortLines ==
  { At(<<"2">>, DLine(<<"1">>, <<"1">>, "chdir", <<P_r>>, R_OK0)),
    At(<<"1", "0">>, DLine(<<"1">>, <<"1">>, "open", <<<<"a">>, F_RDONLY, <<"0">>>>, R_OK0)),
    At(<<"9">>, DLine(<<"1">>, <<"2">>, "open", <<<<"x">>, F_RDONLY, <<"0">>>>, R_OK0)),
    At(<<"0", "2">>, DLine(<<"1">>, <<"1">>, "proc_exit", <<>>, R_OK0)),
    BlankLine }

InitSort ==
  /\ platform = "darwin"
  /\ logfile \in {File(l) : l \in SeqsUpTo(SortLines, MaxLog)}
  /\ log0 = logfile
  /\ force_trace = FALSE
  /\ cmd = <<>>
  /\ cwd_dir = NoFile
  /\ tstate = "idle"
  /\ api = "Dtrace"
  /\ returncode = 0
  /\ parsed = NoResult
  /\ ret = NoReturn
  /\ events = <<>>
  /\ IdleParse /\ IdleMore /\ IdleGen /\ IdleOut /\ IdleDrives /\ IdleExtra

\* cls._sort_log(logname), a first and a second time
SL_sort_log ==
  /\ Len(events) < 2
  /\ logfile' = File(Dtrace_sort_log(Content(logfile)))
  /\ events' = Append(events, "sort")
  /\ DT_unchanged
  /\ UNCHANGED <<tstate, ret, genVars>>

NextSort == SL_sort_log

SpecSort == InitSort /\ [][NextSort]_vars

\* the lines of the sequence that have the index n, in their order
WithIndex(lines, n) == SelectSeq(lines, LAMBDA l : ~IsBlank(l) /\ ToInt(l.index) = n)

\* the numbers that are the index of a line
Indexes == {ToInt(l.index) : l \in SortLines \ {BlankLine}}

\* C36: Dtrace._sort_log rewrites the log so that it holds the non-blank
\* lines of the input and nothing else, each once, in non-decreasing order of
\* the leading integer, the lines with the same integer in the order they
\* had; a second _sort_log leaves the file as the first one wrote it.
C36_SortLogSortsOnce ==
  /\ [](Len(events) >= 1 =>
          LET out == Content(logfile) IN
          /\ \A i \in 1..Len(out) : ~IsBlank(out[i])
          /\ \A i, j \in 1..Len(out) :
               i < j => ToInt(out[i].index) <= ToInt(out[j].index)
          /\ \A n \in Indexes : WithIndex(out, n) = WithIndex(Content(log0), n))
  /\ [][Len(events) = 1 /\ Len(events') = 2 => logfile' = logfile]_vars

\* 10, a blank line, 02, 2: the blank line is gone, 02 stays before 2, and
\* 10 is last
C36_Witness ==
  /\ Len(events) = 2
  /\ Len(Content(log0)) = 4
  /\ Content(log0)[1].index = <<"1", "0">> /\ IsBlank(Content(log0)[2])
  /\ Content(log0)[3].index = <<"0", "2">> /\ Content(log0)[4].index = <<"2">>
  /\ Len(Content(logfile)) = 3
  /\ Content(logfile)[1].index = <<"0", "2">> /\ Content(logfile)[3].index = <<"1", "0">>


\* ------------------------------------------------------------------------
\* The D script, and Dtrace.gen_trace next to dtrace, the helper child and
\* the other processes of the machine
\*
\* The state of the script is the record
\*   trackedpid, current_processes, logindex   the D variables
\*   out                                       what printf has written
\*   exit                                      exit(0) has been called
\* ------------------------------------------------------------------------

DecimalDigits == <<"0", "1", "2", "3", "4", "5", "6", "7", "8", "9">>

\* printf("%d", n)
RECURSIVE IntToStr(_)
IntToStr(n) ==
  IF n < 10 THEN <<DecimalDigits[n + 1]>>
  ELSE IntToStr(n \div 10) \o <<DecimalDigits[(n % 10) + 1]>>

\* printf("%d %d:%d fn(args) = 0\n", logindex, ppid, pid, ...); logindex++
D_printf(d, ppid, pid, fn, args) ==
  [d EXCEPT !.out = Append(@, At(IntToStr(d.logindex),
                                 DLine(IntToStr(ppid), IntToStr(pid), fn, args, <<"0">>))),
            !.logindex = @ + 1]

\* dtrace:::BEGIN, as Dtrace.code(pid, cwd) writes it; ppid and pid are those
\* of dtrace itself in this probe
D_BEGIN(d, helper, cwd, ppid, pid) ==
  LET d1 == [d EXCEPT !.current_processes = 1,
                      !.logindex = 0,
                      !.trackedpid = [@ EXCEPT ![helper] = 1]]
      d2 == D_printf(d1, 1, helper, "chdir", <<cwd>>)
  IN  D_printf(d2, ppid, pid, "dtrace_BEGIN", <<>>)

execname == <<"x">>

\* proc:::start /trackedpid[ppid]/
D_proc_start(d, ppid, pid) ==
  IF d.trackedpid[ppid] # 0
  THEN LET d1 == [d EXCEPT !.trackedpid = [@ EXCEPT ![pid] = 1],
                           !.current_processes = @ + 1]
       IN  D_printf(d1, ppid, pid, "proc_start", <<execname, IntToStr(d1.current_processes)>>)
  ELSE d

\* D_proc_exit_last with a bug: exit(0) is called while another tracked
\* process is left
D_proc_exit_last_early(d, ppid, pid) ==
  IF d.trackedpid[pid] # 0 /\ d.current_processes <= 2
  THEN LET d1 == [d EXCEPT !.trackedpid = [@ EXCEPT ![pid] = 0],
                           !.current_processes = @ - 1]
           d2 == D_printf(d1, ppid, pid, "proc_exit", <<execname, IntToStr(d1.current_processes)>>)
       IN  [d2 EXCEPT !.exit = TRUE]
  ELSE d

\* proc:::exit /trackedpid[pid] && current_processes == 1/
D_proc_exit_last(d, ppid, pid) ==
  IF d.trackedpid[pid] # 0 /\ d.current_processes = 1
  THEN LET d1 == [d EXCEPT !.trackedpid = [@ EXCEPT ![pid] = 0],
                           !.current_processes = @ - 1]
           d2 == D_printf(d1, ppid, pid, "proc_exit", <<execname, IntToStr(d1.current_processes)>>)
       IN  [d2 EXCEPT !.exit = TRUE]
  ELSE d

\* D_proc_exit_any with a bug: the exit of any process is counted
D_proc_exit_any_untracked(d, ppid, pid) ==
  LET d1 == [d EXCEPT !.trackedpid = [@ EXCEPT ![pid] = 0],
                      !.current_processes = @ - 1]
  IN  D_printf(d1, ppid, pid, "proc_exit", <<execname, IntToStr(d1.current_processes)>>)

\* proc:::exit /trackedpid[pid]/
D_proc_exit_any(d, ppid, pid) ==
  IF d.trackedpid[pid] # 0
  THEN LET d1 == [d EXCEPT !.trackedpid = [@ EXCEPT ![pid] = 0],
                           !.current_processes = @ - 1]
       IN  D_printf(d1, ppid, pid, "proc_exit", <<execname, IntToStr(d1.current_processes)>>)
  ELSE d

\* the clauses of one probe run in the order of the program, each on what
\* the one before has left
D_proc_exit(d, ppid, pid) == D_proc_exit_any(D_proc_exit_last(d, ppid, pid), ppid, pid)

\* the pids: 0 is trace_inputs, 1 is launchd, which takes over the children
\* of a process that has ended, 2 is the helper child, 8 is dtrace; the
\* others are given to new processes from 3 up
HELPER == 2
MaxPid == 4
NewPids == 3..MaxPid

Unborn == [state |-> "unborn", ppid |-> 0]

Starting == [state |-> "starting", code |-> 0]
Armed == [state |-> "armed", code |-> 0]
Exiting == [state |-> "exiting", code |-> 0]

InitScript ==
  /\ platform = "darwin"
  /\ logfile = NoFile
  /\ force_trace = FALSE
  /\ cmd = <<P_usr_x>>
  /\ cwd_dir \in {NoFile, File(<<"d">>)}
  /\ tstate = "g_start"
  /\ api = "Dtrace"
  /\ returncode = 0
  /\ parsed = NoResult
  /\ ret = NoReturn
  /\ log0 = NoFile
  /\ events = <<>>
  /\ trackedpid = [p \in 0..8 |-> 0]
  /\ current_processes = 0
  /\ logindex = 0
  /\ procs = [p \in {HELPER} \cup NewPids |-> Unborn]
  /\ readpos = 0
  /\ IdleParse /\ IdleMore /\ IdleGen /\ IdleOut /\ IdleDrives /\ IdleStitch

SC_unchanged ==
  UNCHANGED <<platform, force_trace, cmd, cwd_dir, api, returncode, parsed, log0, ret,
              parseVars, moreVars, outVars, driveVars, stitchVars>>

\* the D variables are as they were
D_unchanged == UNCHANGED <<trackedpid, current_processes, logindex>>

\* Part 1: the helper child is started; it waits for the signal on its stdin
GT_start_child ==
  /\ tstate = "g_start"
  /\ child' = Held
  /\ procs' = [procs EXCEPT ![HELPER] = [state |-> "running", ppid |-> 0]]
  /\ tstate' = "g_start_dtrace"
  /\ UNCHANGED <<dtrace, logfile, events, readpos>>
  /\ D_unchanged /\ SC_unchanged

\* Part 2: the log is created and dtrace is started
GT_start_dtrace ==
  /\ tstate = "g_start_dtrace"
  /\ logfile' = File(<<>>)
  /\ dtrace' = Starting
  /\ tstate' = "g_readline"
  /\ UNCHANGED <<child, procs, events, readpos>>
  /\ D_unchanged /\ SC_unchanged

\* Part 3: while 'dtrace_BEGIN' not in logfile.readline()
GT_readline ==
  /\ tstate = "g_readline"
  /\ IF readpos < Len(Content(logfile))
       THEN /\ readpos' = readpos + 1
            /\ IF Content(logfile)[readpos + 1].fn = "dtrace_BEGIN"
                 THEN tstate' = "g_go" /\ events' = Append(events, "begin_read")
                 ELSE tstate' = "g_poll" /\ UNCHANGED events
       ELSE tstate' = "g_poll" /\ UNCHANGED <<readpos, events>>
  /\ UNCHANGED <<child, dtrace, logfile, procs>>
  /\ D_unchanged /\ SC_unchanged

\* GT_poll with a bug: the loop is left whether dtrace has ended or not
GT_poll_leave ==
  /\ tstate = "g_poll"
  /\ tstate' = "g_go"
  /\ UNCHANGED <<child, dtrace, logfile, procs, events, readpos>>
  /\ D_unchanged /\ SC_unchanged

\* if dtrace.poll() is not None: break
GT_poll ==
  /\ tstate = "g_poll"
  /\ tstate' = IF dtrace.state = "exited" THEN "g_go" ELSE "g_readline"
  /\ UNCHANGED <<child, dtrace, logfile, procs, events, readpos>>
  /\ D_unchanged /\ SC_unchanged

\* Part 4: child.communicate(signal) writes the signal to the helper
GT_release ==
  /\ tstate = "g_go"
  /\ events' = Append(events, "release")
  /\ tstate' = "g_communicate"
  /\ UNCHANGED <<child, dtrace, logfile, procs, readpos>>
  /\ D_unchanged /\ SC_unchanged

\* child.communicate(signal) returns when the helper has ended
GT_communicate ==
  /\ tstate = "g_communicate"
  /\ child.state = "exited"
  /\ tstate' = "g_wait"
  /\ UNCHANGED <<child, dtrace, logfile, procs, events, readpos>>
  /\ D_unchanged /\ SC_unchanged

\* dtrace.wait() returns when dtrace has ended
GT_wait ==
  /\ tstate = "g_wait"
  /\ dtrace.state = "exited"
  /\ tstate' = "d_dtrace_done"
  /\ UNCHANGED <<child, dtrace, logfile, procs, events, readpos>>
  /\ D_unchanged /\ SC_unchanged

\* the helper has the signal and starts the command
HP_start_command ==
  /\ child = Held
  /\ Done("release")
  /\ child' = Running
  /\ UNCHANGED <<tstate, dtrace, logfile, procs, events, readpos>>
  /\ D_unchanged /\ SC_unchanged

\* dtrace or sudo fails before the script runs
DP_fail ==
  /\ dtrace.state = "starting"
  /\ \E c \in ExitCodes \ {0} : dtrace' = Exited(c)
  /\ UNCHANGED <<tstate, child, logfile, procs, events, readpos>>
  /\ D_unchanged /\ SC_unchanged

\* the script as it stands
Script ==
  [trackedpid |-> trackedpid, current_processes |-> current_processes,
   logindex |-> logindex, out |-> Content(logfile), exit |-> dtrace.state # "armed"]

\* a clause has run and has left the script as d
Probed(d) ==
  /\ trackedpid' = d.trackedpid
  /\ current_processes' = d.current_processes
  /\ logindex' = d.logindex
  /\ logfile' = File(d.out)
  /\ dtrace' = IF d.exit /\ dtrace.state = "armed" THEN Exiting ELSE dtrace

\* the probes are enabled and dtrace has not ended
Probing == dtrace.state \in {"armed", "exiting"}

\* the probes are enabled: dtrace:::BEGIN fires
DP_BEGIN ==
  /\ dtrace.state = "starting"
  /\ LET d == D_BEGIN([Script EXCEPT !.exit = FALSE], HELPER, child_cwd(cwd_dir), 0, 8) IN
       /\ trackedpid' = d.trackedpid
       /\ current_processes' = d.current_processes
       /\ logindex' = d.logindex
       /\ logfile' = File(d.out)
  /\ dtrace' = Armed
  /\ UNCHANGED <<tstate, child, procs, events, readpos>>
  /\ SC_unchanged

\* dtrace ends after exit(0)
DP_terminate ==
  /\ dtrace.state = "exiting"
  /\ dtrace' = Exited(0)
  /\ UNCHANGED <<tstate, child, logfile, procs, events, readpos>>
  /\ D_unchanged /\ SC_unchanged

\* the processes that can make a child: launchd, and those that run; the
\* helper only once it has started the command
CanFork(p) ==
  \/ p = 1
  \/ /\ p \in DOMAIN procs /\ procs[p].state = "running"
     /\ p = HELPER => child.state = "running"

\* a process makes a child, which does not run yet
OS_fork ==
  /\ \E p \in {1, HELPER} \cup NewPids, c \in NewPids :
       /\ CanFork(p)
       /\ procs[c].state = "unborn"
       /\ \A q \in NewPids : q < c => procs[q].state # "unborn"
       /\ procs' = [procs EXCEPT ![c] = [state |-> "forked", ppid |-> p]]
  /\ UNCHANGED <<tstate, child, dtrace, logfile, events, readpos>>
  /\ D_unchanged /\ SC_unchanged

\* a new process begins to run: proc:::start fires in it
OS_start ==
  /\ \E c \in NewPids :
       /\ procs[c].state = "forked"
       /\ procs' = [procs EXCEPT ![c].state = "running"]
       /\ IF Probing THEN Probed(D_proc_start(Script, procs[c].ppid, c))
          ELSE UNCHANGED <<trackedpid, current_processes, logindex, logfile, dtrace>>
  /\ UNCHANGED <<tstate, child, events, readpos>>
  /\ SC_unchanged

\* a process ends: proc:::exit fires in it, and launchd takes its children
OS_exit_of(p) ==
  /\ procs[p].state = "running"
  /\ IF p = HELPER
       THEN child.state = "running" /\ \E c \in ExitCodes : child' = Exited(c)
       ELSE UNCHANGED child
  /\ procs' = [q \in DOMAIN procs |->
                 IF q = p THEN [procs[q] EXCEPT !.state = "dead"]
                 ELSE IF procs[q].ppid = p /\ procs[q].state # "unborn"
                   THEN [procs[q] EXCEPT !.ppid = 1]
                 ELSE procs[q]]
  /\ IF Probing THEN Probed(D_proc_exit(Script, procs[p].ppid, p))
     ELSE UNCHANGED <<trackedpid, current_processes, logindex, logfile, dtrace>>
  /\ UNCHANGED <<tstate, events, readpos>>
  /\ SC_unchanged

OS_exit == \E p \in {HELPER} \cup NewPids : OS_exit_of(p)

NextScript ==
  \/ GT_start_child
  \/ GT_start_dtrace
  \/ GT_readline
  \/ GT_poll
  \/ GT_release
  \/ GT_communicate
  \/ GT_wait
  \/ HP_start_command
  \/ DP_fail
  \/ DP_BEGIN
  \/ DP_terminate
  \/ OS_fork
  \/ OS_start
  \/ OS_exit
  \/ DT_settle
  \/ DT_return

SpecScript == InitScript /\ [][NextScript]_vars


\* the processes run, dtrace and the helper included: a step that gen_trace,
\* dtrace or the helper can take is taken in the end, and every process that
\* the script tracks ends at some time
SpecScriptLive ==
  /\ SpecScript
  /\ WF_vars(GT_start_child) /\ WF_vars(GT_start_dtrace)
  /\ WF_vars(GT_readline) /\ WF_vars(GT_poll) /\ WF_vars(GT_release)
  /\ WF_vars(GT_communicate) /\ WF_vars(GT_wait)
  /\ WF_vars(HP_start_command)
  /\ WF_vars(DP_BEGIN \/ DP_fail) /\ WF_vars(DP_terminate)
  /\ \A p \in {HELPER} \cup NewPids : WF_vars(trackedpid[p] = 1 /\ OS_exit_of(p))

\* the command has been started by the helper
CommandStarted == child.state \in {"running", "exited"}

\* C37: in Dtrace.gen_trace the signal that releases the helper is sent only
\* after a line with 'dtrace_BEGIN' has been read from the log, which is
\* there only when the probes are enabled, or after dtrace has ended; in
\* every interleaving of helper, dtrace and gen_trace the command is not
\* started while dtrace runs with its probes not yet enabled.
C37_ReleasedWhenArmedOrGone ==
  /\ Done("release") => (Done("begin_read") \/ dtrace.state = "exited")
  /\ Done("begin_read") => dtrace.state \in {"armed", "exiting", "exited"}
  /\ CommandStarted => dtrace.state \in {"armed", "exiting", "exited"}

\* the command runs, dtrace is armed and its BEGIN line has been read
C37_Witness ==
  /\ child.state = "running"
  /\ dtrace.state = "armed"
  /\ Done("begin_read") /\ readpos = 2
  /\ tstate = "g_communicate"

\* the pids that the script tracks
Tracked == {p \in DOMAIN trackedpid : trackedpid[p] = 1}

\* in this step the process c begins to run, the process p ends
StartsNow(c) == procs[c].state = "forked" /\ procs'[c].state = "running"
ExitsNow(p) == procs[p].state = "running" /\ procs'[p].state = "dead"

\* C38: in the D script, from BEGIN to exit(0), current_processes is the
\* number of pids p with trackedpid[p] = 1. BEGIN makes it 1 with the helper
\* as the only tracked pid; proc:::start of a child of a tracked pid adds one
\* and tracks the child; proc:::exit of a tracked pid takes one off, once, and
\* the pid is not tracked any more; the start or the exit of any other
\* process changes neither.
C38_CounterIsTrackedCount ==
  /\ [](dtrace.state = "armed" => current_processes = Cardinality(Tracked))
  /\ [][(dtrace.state = "starting" /\ dtrace'.state = "armed")
          => (current_processes' = 1 /\ Tracked' = {HELPER})]_vars
  /\ [][\A c \in NewPids :
          (dtrace.state = "armed" /\ StartsNow(c))
            => IF trackedpid[procs[c].ppid] = 1
                 THEN current_processes' = current_processes + 1 /\ Tracked' = Tracked \cup {c}
                 ELSE current_processes' = current_processes /\ Tracked' = Tracked]_vars
  /\ [][\A p \in DOMAIN procs :
          (dtrace.state = "armed" /\ ExitsNow(p))
            => IF trackedpid[p] = 1
                 THEN current_processes' = current_processes - 1 /\ Tracked' = Tracked \ {p}
                 ELSE current_processes' = current_processes /\ Tracked' = Tracked]_vars

\* the helper and its child 3 are tracked; 4, a child of launchd, runs and
\* is not
C38_Witness ==
  /\ dtrace.state = "armed"
  /\ current_processes = 2
  /\ Tracked = {HELPER, 3}
  /\ procs[4].state = "running"

\* C39: the D script calls exit(0) in the step in which the last tracked
\* process ends, the counter going from 1 to 0, and in no other step: not
\* while a tracked process is left. When every tracked process ends at some
\* time, which SpecScriptLive supposes, dtrace ends, and the wait of
\* gen_trace on dtrace returns.
C39_ExitWithLastTracked ==
  /\ [][(dtrace.state = "armed" /\ dtrace'.state = "exiting")
          <=> (/\ dtrace.state = "armed"
               /\ \E p \in DOMAIN procs : ExitsNow(p) /\ Tracked = {p}
               /\ current_processes = 1 /\ current_processes' = 0)]_vars
  /\ [](dtrace.state = "armed" =>
          (Tracked # {} /\ \A p \in Tracked : procs[p].state = "running"))
  /\ [](dtrace.state = "exiting" => Tracked = {})
  /\ (dtrace.state = "starting") ~> (dtrace.state = "exited")
  /\ (tstate = "g_wait") ~> (tstate = "d_dtrace_done")

\* exit(0) was called when 3, the last tracked process, ended after the helper;
\* gen_trace has come back from its wait on dtrace
C39_Witness ==
  /\ dtrace = Exited(0)
  /\ tstate = "d_dtrace_done"
  /\ procs[HELPER].state = "dead" /\ procs[3].state = "dead"
  /\ Len(Content(logfile)) = 5
  /\ Content(logfile)[5].fn = "proc_exit" /\ Content(logfile)[5].pid = <<"3">>


\* ------------------------------------------------------------------------
\* Specification of Strace.gen_trace followed by Strace.parse_log of the log
\* it left: strace writes its output, gen_trace puts the chdir line in front
\* of it, and the parser reads the file line by line. log0 keeps what strace
\* wrote.
\* ------------------------------------------------------------------------

\* what strace can leave in the file named by -o: nothing at all when it
\* opened the file and could not start the command, else the calls of the
\* command, the first one made by the first process
StraceRawLogs ==
  {<<>>}
  \cup StraceOutputs
  \cup {<<SLine("call", p, "open", <<f, RDONLY>>, R_FD3)>> :
          p \in StracePids, f \in {<<"a">>, P_r_d_b}}
  \cup {<<SLine("call", <<"2">>, "execve", <<P_r_d_b>>, R_OK0),
          SLine("call", <<"2">>, "chdir", <<<<"d">>>>, R_OK0),
          SLine("call", <<"2">>, "open", <<<<"b">>, RDONLY>>, R_FD3)>>}

InitInject ==
  /\ IdleParse
  /\ IdleMore /\ IdleGen /\ IdleOut /\ IdleDrives /\ IdleExtra
  /\ platform = "linux2"
  /\ logfile = NoFile
  /\ force_trace = FALSE
  /\ cmd = <<P_usr_x>>
  /\ cwd_dir \in {NoFile, File(<<"d">>)}
  /\ tstate = "s_start"
  /\ api = "Strace"
  /\ returncode = 0
  /\ parsed = NoResult
  /\ ret = NoReturn
  /\ log0 = NoFile
  /\ events = <<>>

SG_unchanged ==
  UNCHANGED <<platform, force_trace, cmd, cwd_dir, api, parsed, ret, events,
              moreVars, genVars, outVars, driveVars, extraVars>>

\* child = subprocess.Popen(trace_cmd + cmd, ...); child.communicate()
SG_communicate ==
  /\ tstate = "s_start"
  /\ \E wrote \in {NoFile} \cup {File(o) : o \in StraceRawLogs}, code \in ExitCodes :
       /\ log0' = wrote
       /\ logfile' = wrote
       /\ returncode' = code
  /\ tstate' = "s_communicated"
  /\ UNCHANGED parseVars
  /\ SG_unchanged

\* if os.path.isfile(logname): the file is written again, the chdir line
\* first; return child.returncode
SG_inject ==
  /\ tstate = "s_communicated"
  /\ logfile' = IF logfile # NoFile
                  THEN File(Strace_inject(Content(logfile), child_cwd(cwd_dir)))
                  ELSE NoFile
  /\ tstate' = "s_returned"
  /\ UNCHANGED <<log0, returncode, parseVars>>
  /\ SG_unchanged

\* Strace.parse_log(logname, ...): context = cls._Context(blacklist)
SG_parse_log_open ==
  /\ tstate = "s_returned" /\ logfile # NoFile
  /\ tstate' = "s_parsing"
  /\ pstate' = "parsing"
  /\ context' = NewContext
  /\ UNCHANGED <<flavor, result, last, nlines, logfile, log0, returncode>>
  /\ SG_unchanged

\* for line in open(filename): context.on_line(line)
SG_on_line ==
  /\ tstate = "s_parsing" /\ pstate = "parsing"
  /\ nlines < Len(Content(logfile))
  /\ LET l == Content(logfile)[nlines + 1]
         c == Strace_on_line(context, l)
     IN /\ context' = c
        /\ pstate' = IF c.err # NoErr THEN "raised" ELSE "parsing"
        /\ last' = Dispatched(context, l)
        /\ nlines' = nlines + 1
  /\ UNCHANGED <<flavor, result, tstate, logfile, log0, returncode>>
  /\ SG_unchanged

\* the end of the file: the two sets are returned
SG_parse_log_return ==
  /\ tstate = "s_parsing" /\ pstate = "parsing"
  /\ nlines = Len(Content(logfile))
  /\ result' = Strace_parse_log_return(context)
  /\ pstate' = "returned"
  /\ UNCHANGED <<flavor, context, last, nlines, tstate, logfile, log0, returncode>>
  /\ SG_unchanged

NextInject ==
  \/ SG_communicate
  \/ SG_inject
  \/ SG_parse_log_open
  \/ SG_on_line
  \/ SG_parse_log_return

SpecInject == InitInject /\ [][NextInject]_vars

\* gen_trace has come back and has left a log
Injected == tstate \in {"s_returned", "s_parsing"} /\ logfile # NoFile

\* the pid the chdir line of the log names
InjectedPid == Head(Content(logfile)).pid

\* C40: after Strace.gen_trace, when strace left a log file, the file is the
\* line '<pid> chdir("<cwd>") = 0' followed by what strace wrote, unchanged,
\* <pid> being the first word of the first line strace wrote; the parser so
\* sets the cwd of <pid> to cwd with the first line, before any other record.
C40_ChdirLineInjected ==
  /\ Injected =>
       /\ log0 # NoFile
       /\ Content(logfile) =
            <<SLine("call", InjectedPid, "chdir", <<child_cwd(cwd_dir)>>, R_OK0)>>
              \o Content(log0)
       /\ Content(log0) # <<>> => InjectedPid = Head(Content(log0)).pid
  /\ (tstate = "s_parsing" /\ nlines = 1) =>
       /\ pstate = "parsing"
       /\ IsDigits(InjectedPid)
       /\ DOMAIN context.cwd = {ToInt(InjectedPid)}
       /\ context.cwd[ToInt(InjectedPid)] = child_cwd(cwd_dir)

\* the same, for a log that strace did not leave empty
C40_ChdirLineInjectedUnlessEmpty ==
  /\ Injected =>
       /\ log0 # NoFile
       /\ Content(logfile) =
            <<SLine("call", InjectedPid, "chdir", <<child_cwd(cwd_dir)>>, R_OK0)>>
              \o Content(log0)
       /\ Content(log0) # <<>> => InjectedPid = Head(Content(log0)).pid
  /\ (tstate = "s_parsing" /\ nlines = 1 /\ Content(log0) # <<>>) =>
       /\ pstate = "parsing"
       /\ IsDigits(InjectedPid)
       /\ DOMAIN context.cwd = {ToInt(InjectedPid)}
       /\ context.cwd[ToInt(InjectedPid)] = child_cwd(cwd_dir)

\* the whole log of process 2 was parsed: its relative open was resolved from
\* the cwd of the chdir line put in front
C40_Witness ==
  /\ tstate = "s_parsing" /\ pstate = "returned"
  /\ InjectedPid = <<"2">>
  /\ nlines = 2
  /\ cwd_dir = File(<<"d">>)
  /\ P_r_d_b \in context.files

====
